---- MODULE Spec2Model ----
(***************************************************************************)
(* AbhinEngine: the board (make/unmake, attack queries), the legal move    *)
(* generator, the static evaluator and the principal-variation search,     *)
(* modelled from src/src/board.rs, movegen.rs, eval.rs and search.rs.      *)
(*                                                                         *)
(* Rust's Option<T> is a sequence of length 0 (None) or 1 (Some(x)).       *)
(* A Vec<T> is a sequence.  A u64 is the set of its one-bits (bit          *)
(* positions 0..63), so that XOR is the symmetric difference.              *)
(***************************************************************************)
EXTENDS Integers, Sequences, FiniteSets, TLC

VARIABLES
    board,      \* the adapter's Board (board.rs:51-60)
    saved,      \* the Boards as they were before each unmatched make_move;
                \* under a search, what search was called with
    perft,      \* the perft driver: depth, stack of move lists, leaf count
    eng         \* the SearchEngine and the position of its search (search.rs:98-109)

vars == <<board, saved, perft, eng>>

\* ------------------------------------------------------------------ Option

None == <<>>

Some(x) == <<x>>

is_some(o) == Len(o) > 0

is_none(o) == Len(o) = 0

\* ------------------------------------------------------------------ board.rs

Squares == 0..63

opposite(c) == IF c = "White" THEN "Black" ELSE "White"

ColoredPiece(p, c) == [piece |-> p, color |-> c]

Move(f, t, promo, cap, ep, castle) ==
    [from |-> f, to |-> t, promotion |-> promo, captured |-> cap,
     is_ep |-> ep, is_castle |-> castle]

null_move == Move(0, 0, None, None, FALSE, FALSE)

\* A bit of the 4-bit castling mask, named by its value (1, 2, 4 or 8).
has_bit(mask, bit) == (mask \div bit) % 2 = 1

clear_bit(mask, bit) == IF has_bit(mask, bit) THEN mask - bit ELSE mask

\* u8 arithmetic as the release build computes it.
wrap_u8(n) == n % 256

\* ---- FEN parsing.  A FEN is the sequence of its space-separated parts,
\* each part the sequence of its characters.

fen_digit(ch) ==
    CASE ch = "1" -> 1 [] ch = "2" -> 2 [] ch = "3" -> 3 [] ch = "4" -> 4
      [] ch = "5" -> 5 [] ch = "6" -> 6 [] ch = "7" -> 7 [] ch = "8" -> 8
      [] OTHER -> 0

is_uppercase(ch) ==
    ch \in {"A","B","C","D","E","F","G","H","I","J","K","L","M",
            "N","O","P","Q","R","S","T","U","V","W","X","Y","Z"}

to_ascii_lowercase(ch) ==
    CASE ch = "P" -> "p" [] ch = "N" -> "n" [] ch = "B" -> "b"
      [] ch = "R" -> "r" [] ch = "Q" -> "q" [] ch = "K" -> "k"
      [] OTHER -> ch

fen_piece(ch) ==
    CASE ch = "p" -> Some("Pawn")   [] ch = "n" -> Some("Knight")
      [] ch = "b" -> Some("Bishop") [] ch = "r" -> Some("Rook")
      [] ch = "q" -> Some("Queen")  [] ch = "k" -> Some("King")
      [] OTHER -> None

RECURSIVE fen_placement(_, _, _, _, _)
fen_placement(chars, i, rank, file, squares) ==
    IF i > Len(chars) THEN squares
    ELSE LET ch == chars[i] IN
         IF ch = "/" THEN fen_placement(chars, i + 1, rank - 1, 0, squares)
         ELSE IF fen_digit(ch) > 0
              THEN fen_placement(chars, i + 1, rank, file + fen_digit(ch), squares)
         ELSE LET color == IF is_uppercase(ch) THEN "White" ELSE "Black"
                  piece == fen_piece(to_ascii_lowercase(ch))
                  sq    == rank * 8 + file
              IN IF is_none(piece)
                 THEN fen_placement(chars, i + 1, rank, file + 1, squares)
                 ELSE fen_placement(chars, i + 1, rank, file + 1,
                        IF sq >= 0 /\ sq < 64
                        THEN [squares EXCEPT ![sq] = Some(ColoredPiece(piece[1], color))]
                        ELSE squares)

contains(chars, ch) == \E i \in 1..Len(chars) : chars[i] = ch

file_of_char(ch) ==
    CASE ch = "a" -> 0 [] ch = "b" -> 1 [] ch = "c" -> 2 [] ch = "d" -> 3
      [] ch = "e" -> 4 [] ch = "f" -> 5 [] ch = "g" -> 6 [] ch = "h" -> 7
      [] OTHER -> 8

sq_from_str(s) ==
    IF Len(s) < 2 THEN None
    ELSE LET file == file_of_char(s[1])
             rank == IF fen_digit(s[2]) > 0 THEN fen_digit(s[2]) - 1 ELSE 8
         IN IF file < 8 /\ rank < 8 THEN Some(rank * 8 + file) ELSE None

from_fen(parts) ==
    [squares   |-> fen_placement(parts[1], 1, 7, 0, [sq \in Squares |-> None]),
     side      |-> IF Len(parts) > 1 /\ parts[2] = <<"b">> THEN "Black" ELSE "White",
     castling  |-> IF Len(parts) > 2
                   THEN (IF contains(parts[3], "K") THEN 1 ELSE 0)
                      + (IF contains(parts[3], "Q") THEN 2 ELSE 0)
                      + (IF contains(parts[3], "k") THEN 4 ELSE 0)
                      + (IF contains(parts[3], "q") THEN 8 ELSE 0)
                   ELSE 0,
     ep_square |-> IF Len(parts) > 3 /\ parts[4] # <<"-">>
                   THEN sq_from_str(parts[4]) ELSE None,
     halfmove  |-> 0,
     hash      |-> {},
     history   |-> <<>>,
     position_hashes |-> <<>>]

StartFen ==
    << <<"r","n","b","q","k","b","n","r","/","p","p","p","p","p","p","p","p","/",
         "8","/","8","/","8","/","8","/",
         "P","P","P","P","P","P","P","P","/","R","N","B","Q","K","B","N","R">>,
       <<"w">>, <<"K","Q","k","q">>, <<"-">>, <<"0">>, <<"1">> >>

start_pos == from_fen(StartFen)

piece_at(b, sq) == b.squares[sq]

\* ---- make_move / unmake_move

castle_rook_from(mv) ==
    IF mv.to > mv.from THEN wrap_u8(mv.from + 3) ELSE wrap_u8(mv.from - 4)

castle_rook_to(mv) ==
    IF mv.to > mv.from THEN wrap_u8(mv.from + 1) ELSE wrap_u8(mv.from - 1)

ep_pawn_square(side, mv) ==
    IF side = "White" THEN wrap_u8(mv.to - 8) ELSE wrap_u8(mv.to + 8)

clear_corner(castling, sq) ==
    CASE sq = 0  -> clear_bit(castling, 2)
      [] sq = 7  -> clear_bit(castling, 1)
      [] sq = 56 -> clear_bit(castling, 8)
      [] sq = 63 -> clear_bit(castling, 4)
      [] OTHER   -> castling

make_squares(b, mv, moving) ==
    IF mv.is_castle
    THEN LET s0 == [b.squares EXCEPT ![mv.to] = Some(moving), ![mv.from] = None]
             rook_from == castle_rook_from(mv)
             rook_to   == castle_rook_to(mv)
         IN IF rook_from < 64 /\ rook_to < 64
            THEN [[s0 EXCEPT ![rook_to] = s0[rook_from]] EXCEPT ![rook_from] = None]
            ELSE s0
    ELSE LET ep_pawn_sq == ep_pawn_square(b.side, mv)
             s0 == IF mv.is_ep /\ ep_pawn_sq < 64
                   THEN [b.squares EXCEPT ![ep_pawn_sq] = None]
                   ELSE b.squares
             placed == IF is_some(mv.promotion)
                       THEN Some(ColoredPiece(mv.promotion[1], moving.color))
                       ELSE Some(moving)
         IN [[s0 EXCEPT ![mv.to] = placed] EXCEPT ![mv.from] = None]

\* The castling rights after a move, the destination square not looked at.
make_castling_from_only(b, mv, moving) ==
    LET c0 == IF moving.piece = "King"
              THEN IF moving.color = "White"
                   THEN clear_bit(clear_bit(b.castling, 1), 2)
                   ELSE clear_bit(clear_bit(b.castling, 4), 8)
              ELSE b.castling
    IN clear_corner(c0, mv.from)

\* The castling rights after a move, a king's move clearing nothing.
make_castling_corners_only(b, mv, moving) ==
    clear_corner(clear_corner(b.castling, mv.from), mv.to)

make_castling(b, mv, moving) ==
    LET c0 == IF moving.piece = "King"
              THEN IF moving.color = "White"
                   THEN clear_bit(clear_bit(b.castling, 1), 2)
                   ELSE clear_bit(clear_bit(b.castling, 4), 8)
              ELSE b.castling
    IN clear_corner(clear_corner(c0, mv.from), mv.to)

abs(n) == IF n < 0 THEN -n ELSE n

\* The en-passant square after a move, the kind of the piece not looked at.
make_ep_square_any_piece(mv, moving) ==
    IF abs(mv.to - mv.from) = 16
    THEN Some((mv.from + mv.to) \div 2)
    ELSE None

make_ep_square(mv, moving) ==
    IF moving.piece = "Pawn" /\ abs(mv.to - mv.from) = 16
    THEN Some((mv.from + mv.to) \div 2)
    ELSE None

make_halfmove(b, mv, moving) ==
    IF moving.piece = "Pawn" \/ is_some(mv.captured) \/ mv.is_ep
    THEN 0
    ELSE b.halfmove + 1

HistoryEntry(b, mv) ==
    [mv |-> mv, castling |-> b.castling, ep_square |-> b.ep_square,
     halfmove |-> b.halfmove, hash |-> b.hash]

\* make_move that returns on an empty source square before it has pushed the
\* hash.
make_move_unpaired(b, mv) ==
    LET src == b.squares[mv.from]
        pushed == [b EXCEPT !.position_hashes = IF is_none(src) THEN @ ELSE Append(@, b.hash),
                            !.history = Append(@, HistoryEntry(b, mv))]
    IN IF is_none(src)
       THEN [pushed EXCEPT !.side = opposite(b.side)]
       ELSE LET moving == src[1] IN
            [pushed EXCEPT !.squares   = make_squares(b, mv, moving),
                           !.castling  = make_castling(b, mv, moving),
                           !.ep_square = make_ep_square(mv, moving),
                           !.halfmove  = make_halfmove(b, mv, moving),
                           !.side      = opposite(b.side)]

make_move(b, mv) ==
    LET pushed == [b EXCEPT !.position_hashes = Append(@, b.hash),
                            !.history = Append(@, HistoryEntry(b, mv))]
        src == b.squares[mv.from]
    IN IF is_none(src)
       THEN [pushed EXCEPT !.side = opposite(b.side)]
       ELSE LET moving == src[1] IN
            [pushed EXCEPT !.squares   = make_squares(b, mv, moving),
                           !.castling  = make_castling(b, mv, moving),
                           !.ep_square = make_ep_square(mv, moving),
                           !.halfmove  = make_halfmove(b, mv, moving),
                           !.side      = opposite(b.side)]

elements(s) == {s[i] : i \in 1..Len(s)}

pop(s) == SubSeq(s, 1, Len(s) - 1)

last(s) == s[Len(s)]

\* unmake_move that leaves the promoted piece on the source square.
unmake_squares_keeps_promotion(b, mv, side) ==
    LET moved == b.squares[mv.to]
        s0 == [b.squares EXCEPT ![mv.from] = moved]
    IN [s0 EXCEPT ![mv.to] =
           IF is_some(mv.captured)
           THEN Some(ColoredPiece(mv.captured[1], opposite(side)))
           ELSE None]

unmake_squares(b, mv, side) ==
    LET moved == b.squares[mv.to] IN
    IF mv.is_castle
    THEN LET s0 == [[b.squares EXCEPT ![mv.from] = moved] EXCEPT ![mv.to] = None]
             rook_from == castle_rook_from(mv)
             rook_to   == castle_rook_to(mv)
         IN IF rook_from < 64 /\ rook_to < 64
            THEN [[s0 EXCEPT ![rook_from] = s0[rook_to]] EXCEPT ![rook_to] = None]
            ELSE s0
    ELSE LET original_piece == IF is_some(mv.promotion)
                               THEN Some(ColoredPiece("Pawn", side))
                               ELSE moved
             s0 == [b.squares EXCEPT ![mv.from] = original_piece]
             ep_sq == ep_pawn_square(side, mv)
         IN IF mv.is_ep
            THEN LET s1 == [s0 EXCEPT ![mv.to] = None] IN
                 IF ep_sq < 64
                 THEN [s1 EXCEPT ![ep_sq] = Some(ColoredPiece("Pawn", opposite(side)))]
                 ELSE s1
            ELSE [s0 EXCEPT ![mv.to] =
                     IF is_some(mv.captured)
                     THEN Some(ColoredPiece(mv.captured[1], opposite(side)))
                     ELSE None]

unmake_move(b) ==
    IF Len(b.history) = 0 THEN b
    ELSE LET entry == last(b.history)
             side  == opposite(b.side)
         IN [b EXCEPT !.history   = pop(@),
                      !.position_hashes = pop(@),
                      !.castling  = entry.castling,
                      !.ep_square = entry.ep_square,
                      !.halfmove  = entry.halfmove,
                      !.hash      = entry.hash,
                      !.side      = side,
                      !.squares   = unmake_squares(b, entry.mv, side)]

\* ---- attack queries

rank_of(sq) == sq \div 8

file_of(sq) == sq % 8

signum(n) == IF n > 0 THEN 1 ELSE IF n < 0 THEN -1 ELSE 0

RECURSIVE path_scan(_, _, _, _, _, _, _)
path_scan(b, r, f, tr, tf, dr, df) ==
    IF r = tr /\ f = tf THEN TRUE
    ELSE IF is_some(b.squares[r * 8 + f]) THEN FALSE
    ELSE path_scan(b, r + dr, f + df, tr, tf, dr, df)

path_clear(b, from, to) ==
    LET dr == signum(rank_of(to) - rank_of(from))
        df == signum(file_of(to) - file_of(from))
    IN path_scan(b, rank_of(from) + dr, file_of(from) + df,
                 rank_of(to), file_of(to), dr, df)

piece_attacks(b, from, to, piece) ==
    LET dr == rank_of(to) - rank_of(from)
        df == file_of(to) - file_of(from)
    IN CASE piece = "Pawn" ->
              LET dir == IF b.squares[from][1].color = "White" THEN 1 ELSE -1
              IN dr = dir /\ abs(df) = 1
         [] piece = "Knight" ->
              (abs(dr) = 2 /\ abs(df) = 1) \/ (abs(dr) = 1 /\ abs(df) = 2)
         [] piece = "Bishop" ->
              abs(dr) = abs(df) /\ dr # 0 /\ path_clear(b, from, to)
         [] piece = "Rook" ->
              (dr = 0 \/ df = 0) /\ ~(dr = 0 /\ df = 0) /\ path_clear(b, from, to)
         [] piece = "Queen" ->
              (abs(dr) = abs(df) \/ dr = 0 \/ df = 0) /\ ~(dr = 0 /\ df = 0)
              /\ path_clear(b, from, to)
         [] piece = "King" ->
              abs(dr) <= 1 /\ abs(df) <= 1 /\ ~(dr = 0 /\ df = 0)

\* Board::is_attacked that sees no attack.
is_attacked_never(b, sq, by) == FALSE

is_attacked(b, sq, by) ==
    \E from \in Squares :
        /\ is_some(b.squares[from])
        /\ b.squares[from][1].color = by
        /\ piece_attacks(b, from, sq, b.squares[from][1].piece)

\* The squares holding a king of `color`, in scan order; find_king returns the first.
king_squares(b, color) ==
    {sq \in Squares : b.squares[sq] = Some(ColoredPiece("King", color))}

find_king(b, color) ==
    LET ks == king_squares(b, color) IN
    IF ks = {} THEN None
    ELSE Some(CHOOSE sq \in ks : \A other \in ks : sq <= other)

in_check(b) ==
    LET king_sq == find_king(b, b.side) IN
    IF is_some(king_sq) THEN is_attacked(b, king_sq[1], opposite(b.side)) ELSE FALSE

has_non_pawn_material(b) ==
    \E sq \in Squares :
        /\ is_some(b.squares[sq])
        /\ b.squares[sq][1].color = b.side
        /\ b.squares[sq][1].piece \notin {"Pawn", "King"}

count_eq(s, x) == Cardinality({i \in 1..Len(s) : s[i] = x})

is_repetition(b) == count_eq(b.position_hashes, b.hash) >= 2

is_fifty_move_rule(b) == b.halfmove >= 100

piece_value(p) ==
    CASE p = "Pawn" -> 100 [] p = "Knight" -> 320 [] p = "Bishop" -> 330
      [] p = "Rook" -> 500 [] p = "Queen" -> 900  [] p = "King" -> 20000

\* ------------------------------------------------------------------ movegen.rs

KNIGHT_DELTAS == << <<-2,-1>>, <<-2,1>>, <<-1,-2>>, <<-1,2>>, <<1,-2>>, <<1,2>>, <<2,-1>>, <<2,1>> >>

KING_DELTAS == << <<-1,-1>>, <<-1,0>>, <<-1,1>>, <<0,-1>>, <<0,1>>, <<1,-1>>, <<1,0>>, <<1,1>> >>

BISHOP_DIRS == << <<-1,-1>>, <<-1,1>>, <<1,-1>>, <<1,1>> >>

ROOK_DIRS == << <<-1,0>>, <<1,0>>, <<0,-1>>, <<0,1>> >>

PROMO_PIECES == <<"Queen", "Rook", "Bishop", "Knight">>

\* The concatenation of ss[lo], ..., ss[hi] in order (Vec::push in loop order).
RECURSIVE concat_range(_, _, _)
concat_range(ss, lo, hi) ==
    IF lo > hi THEN <<>>
    ELSE IF lo = hi THEN ss[lo]
    ELSE LET mid == (lo + hi) \div 2
         IN concat_range(ss, lo, mid) \o concat_range(ss, mid + 1, hi)

concat_from(ss, i) == concat_range(ss, i, Len(ss))

on_board(r, f) == r >= 0 /\ r < 8 /\ f >= 0 /\ f < 8

promotions(from, to, captured) ==
    [i \in 1..4 |-> Move(from, to, Some(PROMO_PIECES[i]), captured, FALSE, FALSE)]

\* gen_pawn_moves without the double push from the starting rank.
pawn_pushes_single_only(b, from, color) ==
    LET dir == IF color = "White" THEN 1 ELSE -1
        tr  == rank_of(from) + dir
        to  == tr * 8 + file_of(from)
    IN IF tr >= 0 /\ tr < 8 /\ is_none(b.squares[to])
       THEN IF tr = (IF color = "White" THEN 7 ELSE 0)
            THEN promotions(from, to, None)
            ELSE <<Move(from, to, None, None, FALSE, FALSE)>>
       ELSE <<>>

pawn_pushes(b, from, color) ==
    LET dir        == IF color = "White" THEN 1 ELSE -1
        start_rank == IF color = "White" THEN 1 ELSE 6
        promo_rank == IF color = "White" THEN 7 ELSE 0
        fr == rank_of(from)
        ff == file_of(from)
        tr == fr + dir
        to == tr * 8 + ff
        to2 == (fr + dir * 2) * 8 + ff
    IN IF tr >= 0 /\ tr < 8 /\ is_none(b.squares[to])
       THEN IF tr = promo_rank
            THEN promotions(from, to, None)
            ELSE <<Move(from, to, None, None, FALSE, FALSE)>>
                 \o (IF fr = start_rank /\ is_none(b.squares[to2])
                     THEN <<Move(from, to2, None, None, FALSE, FALSE)>>
                     ELSE <<>>)
       ELSE <<>>

\* gen_pawn_moves that takes en passant without recording the captured pawn.
pawn_captures_ep_uncaptured(b, from, color, df) ==
    LET dir == IF color = "White" THEN 1 ELSE -1
        tf  == file_of(from) + df
        tr  == rank_of(from) + dir
        to  == tr * 8 + tf
    IN IF ~on_board(tr, tf) THEN <<>>
       ELSE (IF is_some(b.squares[to]) /\ b.squares[to][1].color # color
             THEN IF tr = (IF color = "White" THEN 7 ELSE 0)
                  THEN promotions(from, to, Some(b.squares[to][1].piece))
                  ELSE <<Move(from, to, None, Some(b.squares[to][1].piece), FALSE, FALSE)>>
             ELSE <<>>)
            \o (IF Some(to) = b.ep_square
                THEN <<Move(from, to, None, None, TRUE, FALSE)>>
                ELSE <<>>)

pawn_captures(b, from, color, df) ==
    LET dir        == IF color = "White" THEN 1 ELSE -1
        promo_rank == IF color = "White" THEN 7 ELSE 0
        tf == file_of(from) + df
        tr == rank_of(from) + dir
        to == tr * 8 + tf
    IN IF ~on_board(tr, tf) THEN <<>>
       ELSE (IF is_some(b.squares[to]) /\ b.squares[to][1].color # color
             THEN IF tr = promo_rank
                  THEN promotions(from, to, Some(b.squares[to][1].piece))
                  ELSE <<Move(from, to, None, Some(b.squares[to][1].piece), FALSE, FALSE)>>
             ELSE <<>>)
            \o (IF Some(to) = b.ep_square
                THEN <<Move(from, to, None, Some("Pawn"), TRUE, FALSE)>>
                ELSE <<>>)

gen_pawn_moves(b, from, color) ==
    pawn_pushes(b, from, color)
    \o pawn_captures(b, from, color, -1)
    \o pawn_captures(b, from, color, 1)

leaper_move(b, from, color, delta) ==
    LET tr == rank_of(from) + delta[1]
        tf == file_of(from) + delta[2]
        to == tr * 8 + tf
    IN IF ~on_board(tr, tf) THEN <<>>
       ELSE LET target == b.squares[to]
                captured == IF is_some(target) /\ target[1].color # color
                            THEN Some(target[1].piece) ELSE None
            IN IF is_none(target) \/ target[1].color # color
               THEN <<Move(from, to, None, captured, FALSE, FALSE)>>
               ELSE <<>>

gen_leaper_moves(b, from, color, deltas) ==
    concat_from([i \in 1..Len(deltas) |-> leaper_move(b, from, color, deltas[i])], 1)

RECURSIVE slide(_, _, _, _, _, _, _)
slide(b, from, color, tr, tf, dr, df) ==
    IF ~on_board(tr, tf) THEN <<>>
    ELSE LET to == tr * 8 + tf
             target == b.squares[to]
         IN IF is_some(target)
            THEN IF target[1].color # color
                 THEN <<Move(from, to, None, Some(target[1].piece), FALSE, FALSE)>>
                 ELSE <<>>
            ELSE <<Move(from, to, None, None, FALSE, FALSE)>>
                 \o slide(b, from, color, tr + dr, tf + df, dr, df)

gen_slider_moves(b, from, color, dirs) ==
    concat_from([i \in 1..Len(dirs) |->
                    slide(b, from, color, rank_of(from) + dirs[i][1],
                          file_of(from) + dirs[i][2], dirs[i][1], dirs[i][2])], 1)

\* gen_castling that does not look at the square the king crosses.
castle_kingside_through_check(b, from, color, ks_bit, king_sq) ==
    IF /\ has_bit(b.castling, ks_bit)
       /\ is_none(b.squares[king_sq + 1])
       /\ is_none(b.squares[king_sq + 2])
       /\ ~is_attacked(b, king_sq + 2, opposite(color))
    THEN <<Move(from, king_sq + 2, None, None, FALSE, TRUE)>>
    ELSE <<>>

castle_kingside(b, from, color, ks_bit, king_sq) ==
    IF /\ has_bit(b.castling, ks_bit)
       /\ is_none(b.squares[king_sq + 1])
       /\ is_none(b.squares[king_sq + 2])
       /\ ~is_attacked(b, king_sq + 1, opposite(color))
       /\ ~is_attacked(b, king_sq + 2, opposite(color))
    THEN <<Move(from, king_sq + 2, None, None, FALSE, TRUE)>>
    ELSE <<>>

castle_queenside(b, from, color, qs_bit, king_sq) ==
    IF /\ has_bit(b.castling, qs_bit)
       /\ is_none(b.squares[king_sq - 1])
       /\ is_none(b.squares[king_sq - 2])
       /\ is_none(b.squares[king_sq - 3])
       /\ ~is_attacked(b, king_sq - 1, opposite(color))
       /\ ~is_attacked(b, king_sq - 2, opposite(color))
    THEN <<Move(from, king_sq - 2, None, None, FALSE, TRUE)>>
    ELSE <<>>

gen_castling(b, from, color) ==
    LET ks_bit  == IF color = "White" THEN 1 ELSE 4
        qs_bit  == IF color = "White" THEN 2 ELSE 8
        king_sq == IF color = "White" THEN 4 ELSE 60
    IN IF from # king_sq THEN <<>>
       ELSE IF is_attacked(b, king_sq, opposite(color)) THEN <<>>
       ELSE castle_kingside(b, from, color, ks_bit, king_sq)
            \o castle_queenside(b, from, color, qs_bit, king_sq)

piece_moves(b, from) ==
    LET sq == b.squares[from] IN
    IF is_none(sq) THEN <<>>
    ELSE IF sq[1].color # b.side THEN <<>>
    ELSE LET color == sq[1].color
             piece == sq[1].piece
         IN CASE piece = "Pawn"   -> gen_pawn_moves(b, from, color)
              [] piece = "Knight" -> gen_leaper_moves(b, from, color, KNIGHT_DELTAS)
              [] piece = "Bishop" -> gen_slider_moves(b, from, color, BISHOP_DIRS)
              [] piece = "Rook"   -> gen_slider_moves(b, from, color, ROOK_DIRS)
              [] piece = "Queen"  -> gen_slider_moves(b, from, color, BISHOP_DIRS)
                                     \o gen_slider_moves(b, from, color, ROOK_DIRS)
              [] piece = "King"   -> gen_leaper_moves(b, from, color, KING_DELTAS)
                                     \o gen_castling(b, from, color)

generate_pseudo_legal(b) ==
    concat_from([i \in 1..64 |-> piece_moves(b, i - 1)], 1)

\* The retain() test of generate_moves: after the move, the mover's king
\* exists and is not attacked by the opponent.
legal(b, mv) ==
    LET after   == make_move(b, mv)
        king_sq == find_king(after, b.side)
    IN IF is_some(king_sq)
       THEN ~is_attacked(after, king_sq[1], opposite(b.side))
       ELSE FALSE

\* generate_moves without the legality filter.
generate_moves_unfiltered(b) == generate_pseudo_legal(b)

generate_moves(b) ==
    LET keep(mv) == legal(b, mv) IN SelectSeq(generate_pseudo_legal(b), keep)

\* generate_captures that keeps every legal move.
generate_captures_keeps_quiet(b) == generate_moves(b)

generate_captures(b) ==
    LET keep(m) == is_some(m.captured) \/ m.is_ep IN SelectSeq(generate_moves(b), keep)

\* ------------------------------------------------------------------ eval.rs

\* Piece-square tables, entry sq + 1 for square sq (rank 0 = White's first rank).
PAWN_OP ==
    <<   0,   0,   0,   0,   0,   0,   0,   0,
        -5,  -5,  -5,  -5,  -5,  -5,  -5,  -5,
        -2,  -2,   0,   5,   5,   0,  -2,  -2,
        -2,  -2,   2,  22,  22,   2,  -2,  -2,
        -2,  -2,   4,  24,  24,   4,  -2,  -2,
         3,   3,   6,   8,   8,   6,   3,   3,
        45,  45,  40,  30,  30,  40,  45,  45,
         0,   0,   0,   0,   0,   0,   0,   0 >>

PAWN_EG ==
    <<   0,   0,   0,   0,   0,   0,   0,   0,
        10,  10,  10,  10,  10,  10,  10,  10,
         5,   5,   5,   5,   5,   5,   5,   5,
         2,   2,   5,  10,  10,   5,   2,   2,
         0,   0,   5,  12,  12,   5,   0,   0,
        -2,  -2,   0,   5,   5,   0,  -2,  -2,
        -5,  -5,  -5,  -5,  -5,  -5,  -5,  -5,
         0,   0,   0,   0,   0,   0,   0,   0 >>

KNIGHT_OP ==
    << -50, -40, -30, -30, -30, -30, -40, -50,
       -40, -25,  -5,  -5,  -5,  -5, -25, -40,
       -30,  -5,   8,  12,  12,   8,  -5, -30,
       -30,  -5,  12,  18,  18,  12,  -5, -30,
       -30,  -5,  12,  18,  18,  12,  -5, -30,
       -30,  -5,   8,  12,  12,   8,  -5, -30,
       -40, -25,  -5,  -5,  -5,  -5, -25, -40,
       -50, -40, -35, -30, -30, -35, -40, -50 >>

KNIGHT_EG ==
    << -60, -40, -30, -30, -30, -30, -40, -60,
       -40, -20,   0,   5,   5,   0, -20, -40,
       -30,   0,  15,  20,  20,  15,   0, -30,
       -30,   5,  20,  28,  28,  20,   5, -30,
       -30,   5,  20,  28,  28,  20,   5, -30,
       -30,   0,  15,  20,  20,  15,   0, -30,
       -40, -20,   0,   5,   5,   0, -20, -40,
       -60, -40, -30, -30, -30, -30, -40, -60 >>

BISHOP_OP ==
    << -20, -10, -10, -10, -10, -10, -10, -20,
       -10,   5,   0,   0,   0,   0,   5, -10,
       -10,  10,  12,  12,  12,  12,  10, -10,
       -10,   5,  12,  15,  15,  12,   5, -10,
       -10,   5,  12,  15,  15,  12,   5, -10,
       -10,  10,  12,  12,  12,  12,  10, -10,
       -10,   5,   0,   0,   0,   0,   5, -10,
       -20, -10, -10, -10, -10, -10, -10, -20 >>

BISHOP_EG ==
    << -20, -10, -10, -10, -10, -10, -10, -20,
       -10,   0,   0,   0,   0,   0,   0, -10,
       -10,   0,   8,  10,  10,   8,   0, -10,
       -10,   0,  10,  12,  12,  10,   0, -10,
       -10,   0,  10,  12,  12,  10,   0, -10,
       -10,   0,   8,  10,  10,   8,   0, -10,
       -10,   0,   0,   0,   0,   0,   0, -10,
       -20, -10, -10, -10, -10, -10, -10, -20 >>

ROOK_OP ==
    <<   0,   0,   0,   5,   5,   0,   0,   0,
        -5,   0,   0,   0,   0,   0,   0,  -5,
        -5,   0,   0,   0,   0,   0,   0,  -5,
        -5,   0,   0,   0,   0,   0,   0,  -5,
        -5,   0,   0,   0,   0,   0,   0,  -5,
        -5,   0,   0,   0,   0,   0,   0,  -5,
         5,  10,  10,  10,  10,  10,  10,   5,
         0,   0,   0,   0,   0,   0,   0,   0 >>

ROOK_EG ==
    <<   5,   5,   5,   5,   5,   5,   5,   5,
        10,  10,  10,  10,  10,  10,  10,  10,
         0,   0,   0,   0,   0,   0,   0,   0,
         0,   0,   0,   0,   0,   0,   0,   0,
         0,   0,   0,   0,   0,   0,   0,   0,
         0,   0,   0,   0,   0,   0,   0,   0,
         0,   0,   0,   0,   0,   0,   0,   0,
         0,   0,   0,   0,   0,   0,   0,   0 >>

QUEEN_OP ==
    << -20, -10, -10,  -5,  -5, -10, -10, -20,
       -10,   0,   0,   0,   0,   0,   0, -10,
       -10,   0,   5,   5,   5,   5,   0, -10,
        -5,   0,   5,   5,   5,   5,   0,  -5,
         0,   0,   5,   5,   5,   5,   0,  -5,
       -10,   5,   5,   5,   5,   5,   0, -10,
       -10,   0,   5,   0,   0,   0,   0, -10,
       -20, -15, -10,  -5,  -5, -10, -15, -20 >>

QUEEN_EG ==
    << -30, -20, -10,   0,   0, -10, -20, -30,
       -20, -10,   0,   5,   5,   0, -10, -20,
       -10,   0,  10,  10,  10,  10,   0, -10,
         0,   5,  10,  15,  15,  10,   5,   0,
         0,   5,  10,  15,  15,  10,   5,   0,
       -10,   0,  10,  10,  10,  10,   0, -10,
       -20, -10,   0,   5,   5,   0, -10, -20,
       -30, -20, -10,   0,   0, -10, -20, -30 >>

KING_OP ==
    << -30, -40, -40, -50, -50, -40, -40, -30,
       -30, -40, -40, -50, -50, -40, -40, -30,
       -30, -40, -40, -50, -50, -40, -40, -30,
       -30, -40, -40, -50, -50, -40, -40, -30,
       -20, -30, -30, -40, -40, -30, -30, -20,
       -10, -20, -20, -30, -30, -20, -20, -10,
        15,  20, -10, -15, -15, -10,  20,  15,
        20,  30,  10, -10, -10,  10,  30,  20 >>

KING_EG ==
    << -50, -30, -20, -10, -10, -20, -30, -50,
       -30, -10,   5,  10,  10,   5, -10, -30,
       -20,   5,  15,  20,  20,  15,   5, -20,
       -10,  10,  20,  25,  25,  20,  10, -10,
       -10,  10,  20,  25,  25,  20,  10, -10,
       -20,   5,  15,  20,  20,  15,   5, -20,
       -30, -10,   5,  10,  10,   5, -10, -30,
       -50, -30, -20, -10, -10, -20, -30, -50 >>

\* i32 division: the quotient is truncated toward zero.
div_trunc(a, b) == IF a >= 0 THEN a \div b ELSE -((-a) \div b)

min(a, b) == IF a < b THEN a ELSE b

\* f[lo] + ... + f[hi], the accumulation of a loop over lo..hi.
RECURSIVE sum_range(_, _, _)
sum_range(f, lo, hi) ==
    IF lo > hi THEN 0
    ELSE IF lo = hi THEN f[lo]
    ELSE LET mid == (lo + hi) \div 2
         IN sum_range(f, lo, mid) + sum_range(f, mid + 1, hi)

pieces_of(b, color, piece) ==
    {sq \in Squares : b.squares[sq] = Some(ColoredPiece(piece, color))}

phase_weight(piece) ==
    CASE piece \in {"Knight", "Bishop"} -> 1
      [] piece = "Rook"  -> 2
      [] piece = "Queen" -> 4
      [] OTHER -> 0

game_phase(b) ==
    LET mat == sum_range([sq \in Squares |->
                   IF is_some(b.squares[sq])
                   THEN phase_weight(b.squares[sq][1].piece) ELSE 0], 0, 63)
    IN min((mat * 256) \div 28, 256)

xor56(sq) == (7 - rank_of(sq)) * 8 + file_of(sq)

\* pst_blend that indexes Black's squares like White's.
pst_blend_unmirrored(sq, color, op_table, eg_table, phase) ==
    div_trunc(op_table[sq + 1] * phase + eg_table[sq + 1] * (256 - phase), 256)

pst_blend(sq, color, op_table, eg_table, phase) ==
    LET idx == IF color = "White" THEN sq ELSE xor56(sq)
    IN div_trunc(op_table[idx + 1] * phase + eg_table[idx + 1] * (256 - phase), 256)

pawn_file_count(b, color, f) ==
    Cardinality({sq \in pieces_of(b, color, "Pawn") : file_of(sq) = f})

pawn_structure(b, color) ==
    LET file_cnt == [f \in 0..7 |-> pawn_file_count(b, color, f)]
        term(f) ==
            IF file_cnt[f] = 0 THEN 0
            ELSE (IF file_cnt[f] > 1 THEN -(20 * (file_cnt[f] - 1)) ELSE 0)
               + (IF (f = 0 \/ file_cnt[f - 1] = 0) /\ (f = 7 \/ file_cnt[f + 1] = 0)
                  THEN -15 ELSE 0)
    IN sum_range([f \in 0..7 |-> term(f)], 0, 7)

king_safety(b, color, phase) ==
    IF phase < 60 THEN 0
    ELSE LET king_sq == find_king(b, color) IN
         IF is_none(king_sq) THEN 0
         ELSE LET kf == file_of(king_sq[1])
                  has_pawn(f) == \E r \in 0..7 :
                      b.squares[r * 8 + f] = Some(ColoredPiece("Pawn", color))
                  open(df) ==
                      IF kf + df < 0 \/ kf + df >= 8 THEN 0
                      ELSE IF ~has_pawn(kf + df) THEN -((18 * phase) \div 256) ELSE 0
              IN open(-1) + open(0) + open(1)
                 + (IF kf >= 2 /\ kf <= 5 THEN -((22 * phase) \div 256) ELSE 0)

bishop_pair(b, color) ==
    IF Cardinality(pieces_of(b, color, "Bishop")) >= 2 THEN 30 ELSE 0

rook_bonus(b, color) ==
    LET seventh == IF color = "White" THEN 6 ELSE 1
        friendly(file) == \E r \in 0..7 :
            b.squares[r * 8 + file] = Some(ColoredPiece("Pawn", color))
        enemy(file) == \E r \in 0..7 :
            b.squares[r * 8 + file] = Some(ColoredPiece("Pawn", opposite(color)))
        bonus(sq) ==
            (IF ~friendly(file_of(sq)) /\ ~enemy(file_of(sq)) THEN 20
             ELSE IF ~friendly(file_of(sq)) THEN 10 ELSE 0)
          + (IF rank_of(sq) = seventh THEN 25 ELSE 0)
    IN sum_range([sq \in Squares |->
           IF b.squares[sq] = Some(ColoredPiece("Rook", color)) THEN bonus(sq) ELSE 0], 0, 63)

RECURSIVE slider_ray(_, _, _, _, _, _)
slider_ray(b, color, tr, tf, dr, df) ==
    IF ~on_board(tr, tf) THEN 0
    ELSE LET target == b.squares[tr * 8 + tf] IN
         IF is_some(target)
         THEN (IF target[1].color # color THEN 1 ELSE 0)
         ELSE 1 + slider_ray(b, color, tr + dr, tf + df, dr, df)

slider_mob(b, from, color, dirs) ==
    sum_range([i \in 1..Len(dirs) |->
                  slider_ray(b, color, rank_of(from) + dirs[i][1],
                             file_of(from) + dirs[i][2], dirs[i][1], dirs[i][2])],
              1, Len(dirs))

knight_mob(b, from, color) ==
    Cardinality({i \in 1..8 :
        LET tr == rank_of(from) + KNIGHT_DELTAS[i][1]
            tf == file_of(from) + KNIGHT_DELTAS[i][2]
        IN on_board(tr, tf)
           /\ (is_none(b.squares[tr * 8 + tf]) \/ b.squares[tr * 8 + tf][1].color # color)})

mobility(b, color) ==
    LET mob(from) ==
            LET piece == b.squares[from][1].piece IN
            CASE piece = "Knight" -> knight_mob(b, from, color)
              [] piece = "Bishop" -> slider_mob(b, from, color, BISHOP_DIRS)
              [] piece = "Rook"   -> slider_mob(b, from, color, ROOK_DIRS)
              [] piece = "Queen"  -> slider_mob(b, from, color, BISHOP_DIRS)
                                     + slider_mob(b, from, color, ROOK_DIRS)
              [] OTHER -> 0
    IN sum_range([from \in Squares |->
           IF is_some(b.squares[from]) /\ b.squares[from][1].color = color
           THEN mob(from) ELSE 0], 0, 63)

piece_tables(piece) ==
    CASE piece = "Pawn"   -> [op |-> PAWN_OP,   eg |-> PAWN_EG,   mat |-> 100]
      [] piece = "Knight" -> [op |-> KNIGHT_OP, eg |-> KNIGHT_EG, mat |-> 320]
      [] piece = "Bishop" -> [op |-> BISHOP_OP, eg |-> BISHOP_EG, mat |-> 340]
      [] piece = "Rook"   -> [op |-> ROOK_OP,   eg |-> ROOK_EG,   mat |-> 500]
      [] piece = "Queen"  -> [op |-> QUEEN_OP,  eg |-> QUEEN_EG,  mat |-> 950]
      [] piece = "King"   -> [op |-> KING_OP,   eg |-> KING_EG,   mat |-> 0]

\* The score before the side-to-move sign: White's terms minus Black's.
white_minus_black(b) ==
    LET phase    == game_phase(b)
        val(sq)  ==
            LET cp == b.squares[sq][1]
                t  == piece_tables(cp.piece)
                v  == t.mat + pst_blend(sq, cp.color, t.op, t.eg, phase)
            IN IF cp.color = "White" THEN v ELSE -v
    IN sum_range([sq \in Squares |-> IF is_some(b.squares[sq]) THEN val(sq) ELSE 0], 0, 63)
       + (pawn_structure(b, "White") - pawn_structure(b, "Black"))
       + (king_safety(b, "White", phase) - king_safety(b, "Black", phase))
       + (bishop_pair(b, "White") - bishop_pair(b, "Black"))
       + (rook_bonus(b, "White") - rook_bonus(b, "Black"))
       + (mobility(b, "White") - mobility(b, "Black")) * 3

evaluate(b) ==
    IF b.side = "White" THEN white_minus_black(b) ELSE -white_minus_black(b)

\* ------------------------------------------------------------------ positions

\* The positions the adapter hands the engine ("position startpos", "position fen ...").
\* rnbqkbnr/ppp1p1pp/8/3pPp2/8/8/PPPP1PPP/RNBQKBNR w KQkq f6 0 3
EpFen ==
    << <<"r","n","b","q","k","b","n","r","/","p","p","p","1","p","1","p","p","/","8","/","3","p","P","p","2","/","8","/","8","/","P","P","P","P","1","P","P","P","/","R","N","B","Q","K","B","N","R">>,
       <<"w">>,
       <<"K","Q","k","q">>,
       <<"f","6">>,
       <<"0">>,
       <<"3">> >>

\* r3k2r/8/8/8/8/8/8/R3K2R w KQkq - 0 1
CastleFen ==
    << <<"r","3","k","2","r","/","8","/","8","/","8","/","8","/","8","/","8","/","R","3","K","2","R">>,
       <<"w">>,
       <<"K","Q","k","q">>,
       <<"-">>,
       <<"0">>,
       <<"1">> >>

\* r4rk1/8/8/8/8/8/8/R3K2R w KQ - 0 1
CastleAttackedFen ==
    << <<"r","4","r","k","1","/","8","/","8","/","8","/","8","/","8","/","8","/","R","3","K","2","R">>,
       <<"w">>,
       <<"K","Q">>,
       <<"-">>,
       <<"0">>,
       <<"1">> >>

\* r3k2r/1P6/8/8/8/8/6p1/R3K2R w KQkq - 0 1
PromoFen ==
    << <<"r","3","k","2","r","/","1","P","6","/","8","/","8","/","8","/","8","/","6","p","1","/","R","3","K","2","R">>,
       <<"w">>,
       <<"K","Q","k","q">>,
       <<"-">>,
       <<"0">>,
       <<"1">> >>

\* 4k3/3p4/8/4P3/8/8/8/4K3 b - - 0 1
DoublePushFen ==
    << <<"4","k","3","/","3","p","4","/","8","/","4","P","3","/","8","/","8","/","8","/","4","K","3">>,
       <<"b">>,
       <<"-">>,
       <<"-">>,
       <<"0">>,
       <<"1">> >>

\* 6k1/6pp/8/8/8/8/6PP/4R1K1 w - - 0 1
MateFen ==
    << <<"6","k","1","/","6","p","p","/","8","/","8","/","8","/","8","/","6","P","P","/","4","R","1","K","1">>,
       <<"w">>,
       <<"-">>,
       <<"-">>,
       <<"0">>,
       <<"1">> >>

InitFens == {StartFen, EpFen, CastleFen, CastleAttackedFen, PromoFen, DoublePushFen}

MaxPly == 2

\* ------------------------------------------------------------------ the game on the board

PerftIdle == [active |-> FALSE]

EngIdle == [active |-> FALSE]

Init ==
    /\ \E f \in InitFens : board = from_fen(f)
    /\ saved = <<>>
    /\ perft = PerftIdle
    /\ eng = EngIdle

\* Board::make_move of a move of generate_moves (make_uci_move, pvs, qsearch),
\* while fewer than `limit` moves are on the undo stack.
make_one(limit) ==
    /\ Len(board.history) < limit
    /\ \E mv \in elements(generate_moves(board)) : board' = make_move(board, mv)
    /\ saved' = Append(saved, board)
    /\ UNCHANGED <<perft, eng>>

MakeMove == make_one(MaxPly)

\* Board::unmake_move.
UnmakeMove ==
    /\ board' = unmake_move(board)
    /\ saved' = IF Len(board.history) = 0 THEN saved ELSE pop(saved)
    /\ UNCHANGED <<perft, eng>>

Next == MakeMove \/ UnmakeMove

Spec == Init /\ [][Next]_vars

\* ------------------------------------------------------------------ claims on the board

\* The move make_move applied last, and the position it was applied to.
last_move == last(board.history).mv

before_move == last(saved)

\* C1: for every position P reached by legal moves and every move m of
\* generate_moves(P), make_move(m) followed by unmake_move() leaves every
\* Board field as it was before the make: squares, side, castling, ep_square,
\* halfmove, hash, history and position_hashes.
C1_MakeUnmakeRestores ==
    Len(saved) > 0 => unmake_move(board) = before_move

\* A castling was made and then a pawn took a rook and promoted; both are undone.
C1_Witness ==
    /\ Len(saved) = 2
    /\ board.history[1].mv.is_castle
    /\ is_some(last_move.promotion) /\ is_some(last_move.captured)
    /\ unmake_move(board) = saved[2]
    /\ unmake_move(unmake_move(board)) = saved[1]

\* C2: after make_move of any move of generate_moves(P), the king of the
\* side that moved exists and is not attacked by the opponent.
C2_MoverKingSafe ==
    Len(saved) > 0 =>
        LET mover   == opposite(board.side)
            king_sq == find_king(board, mover)
        IN is_some(king_sq) /\ ~is_attacked(board, king_sq[1], board.side)

\* A move was made out of check, and one by a piece other than the king while
\* an enemy slider looks at the king's file or rank.
C2_Witness ==
    /\ Len(saved) > 0
    /\ in_check(before_move)
    /\ before_move.squares[last_move.from][1].piece # "King"
    /\ Cardinality({i \in 1..Len(generate_pseudo_legal(before_move)) :
                       ~legal(before_move, generate_pseudo_legal(before_move)[i])}) > 0

\* C4: for every move m of generate_moves(P): m.captured is set, to the kind
\* of the piece on m.to, iff m.to holds an opposing piece or m is en passant;
\* m.is_ep iff m is a pawn's diagonal move onto P.ep_square; an en-passant
\* move has captured = Pawn, and making it empties the square of the captured
\* pawn (one rank behind m.to, seen from the mover) and puts the capturing
\* pawn on m.to.
C4_CaptureAndEnPassantFlags ==
    Len(saved) > 0 =>
        LET P      == before_move
            m      == last_move
            target == P.squares[m.to]
            mover  == P.squares[m.from][1]
            enemy  == is_some(target) /\ target[1].color # P.side
            behind == IF P.side = "White" THEN m.to - 8 ELSE m.to + 8
        IN /\ is_some(m.captured) <=> (enemy \/ m.is_ep)
           /\ (enemy /\ ~m.is_ep) => m.captured = Some(target[1].piece)
           /\ m.is_ep <=> /\ mover.piece = "Pawn"
                          /\ file_of(m.from) # file_of(m.to)
                          /\ Some(m.to) = P.ep_square
           /\ m.is_ep => /\ m.captured = Some("Pawn")
                         /\ P.squares[behind] = Some(ColoredPiece("Pawn", opposite(P.side)))
                         /\ is_none(board.squares[behind])
                         /\ board.squares[m.to] = Some(ColoredPiece("Pawn", P.side))

\* e5f6 was taken en passant from rnbqkbnr/ppp1p1pp/8/3pPp2/8/8/PPPP1PPP/RNBQKBNR w KQkq f6:
\* f5 is empty and the white pawn stands on f6.
C4_Witness ==
    /\ Len(saved) = 1
    /\ saved[1] = from_fen(EpFen)
    /\ last_move = Move(36, 45, None, Some("Pawn"), TRUE, FALSE)
    /\ is_none(board.squares[37])
    /\ board.squares[45] = Some(ColoredPiece("Pawn", "White"))

\* The conditions of a castling of `color` on `wing` ("K" or "Q") in position P.
castling_right(color, wing) ==
    IF color = "White" THEN (IF wing = "K" THEN 1 ELSE 2)
                       ELSE (IF wing = "K" THEN 4 ELSE 8)

home_square(color) == IF color = "White" THEN 4 ELSE 60

squares_between(color, wing) ==
    IF wing = "K" THEN {home_square(color) + 1, home_square(color) + 2}
    ELSE {home_square(color) - 1, home_square(color) - 2, home_square(color) - 3}

squares_crossed(color, wing) ==
    IF wing = "K" THEN {home_square(color) + 1, home_square(color) + 2}
    ELSE {home_square(color) - 1, home_square(color) - 2}

may_castle(P, color, wing) ==
    /\ has_bit(P.castling, castling_right(color, wing))
    /\ \A sq \in squares_between(color, wing) : is_none(P.squares[sq])
    /\ ~is_attacked(P, home_square(color), opposite(color))
    /\ \A sq \in squares_crossed(color, wing) : ~is_attacked(P, sq, opposite(color))

castling_move(color, wing) ==
    Move(home_square(color),
         IF wing = "K" THEN home_square(color) + 2 ELSE home_square(color) - 2,
         None, None, FALSE, TRUE)

\* C7: a castling move is generated only if its right bit is set, every
\* square between king and rook is empty, the king is not in check and
\* neither the square it crosses nor the square it lands on is attacked; and
\* a wing that meets all of these is generated whatever the other wing does.
C7_CastlingConditions ==
    /\ (Len(saved) > 0 /\ last_move.is_castle) =>
           \E wing \in {"K", "Q"} :
               /\ last_move = castling_move(before_move.side, wing)
               /\ may_castle(before_move, before_move.side, wing)
    /\ \A wing \in {"K", "Q"} :
           may_castle(board, board.side, wing) =>
               castling_move(board.side, wing) \in elements(generate_moves(board))

\* r4rk1/8/8/8/8/8/8/R3K2R w KQ: f1 is attacked, so O-O is not generated,
\* and O-O-O was generated and made.
C7_Witness ==
    /\ Len(saved) = 1
    /\ saved[1] = from_fen(CastleAttackedFen)
    /\ is_attacked(saved[1], 5, "Black")
    /\ ~may_castle(saved[1], "White", "K")
    /\ castling_move("White", "K") \notin elements(generate_moves(saved[1]))
    /\ last_move = castling_move("White", "Q")
    /\ board.squares[2] = Some(ColoredPiece("King", "White"))
    /\ board.squares[3] = Some(ColoredPiece("Rook", "White"))

\* ------------------------------------------------------------------ claims on the evaluator

\* P with the piece colours swapped, the board flipped vertically (sq XOR 56)
\* and the side to move flipped.
mirror(b) ==
    [b EXCEPT !.squares = [sq \in Squares |->
                              IF is_some(b.squares[xor56(sq)])
                              THEN Some(ColoredPiece(b.squares[xor56(sq)][1].piece,
                                                     opposite(b.squares[xor56(sq)][1].color)))
                              ELSE None],
              !.side = opposite(b.side)]

MaxEvalPly == 1

\* The positions the evaluator is applied to: those of Init and the ones
\* MaxEvalPly legal moves away.
EvalMakeMove == make_one(MaxEvalPly)

EvalNext == EvalMakeMove \/ UnmakeMove

SpecEval == Init /\ [][EvalNext]_vars

\* C6 as stated: evaluate(P) = -evaluate(P') for P' the mirror of P.
C6_EvalNegatedByMirror ==
    evaluate(board) = -evaluate(mirror(board))

\* C6, amended: evaluate is relative to the side to move, so the mirrored
\* position, in which the other colour is to move, has the same score:
\* evaluate(P) = evaluate(P'); it is White's-minus-Black's sum that the
\* mirror negates.
C6_EvalSymmetric ==
    /\ evaluate(board) = evaluate(mirror(board))
    /\ white_minus_black(board) = -white_minus_black(mirror(board))

\* Black to move in a position that is not worth 0, in the middlegame phase.
C6_Witness ==
    /\ board.side = "Black"
    /\ evaluate(board) # 0
    /\ game_phase(board) >= 60
    /\ evaluate(board) = evaluate(mirror(board))
    /\ evaluate(board) = -white_minus_black(board)

\* ------------------------------------------------------------------ perft

\* Perft walks the tree of generate_moves / make_move / unmake_move from the
\* start position to `depth` plies and counts its leaves.  A frame holds the
\* moves of one node and the index of the next one to make; the moves of a
\* node at ply depth-1 are the leaves below it.

MaxPerftDepth == 3

PerftExpected == <<20, 400, 8902, 197281, 4865609>>

PerftFrame(b) == [moves |-> generate_moves(b), i |-> 1]

PerftInit ==
    /\ board = start_pos
    /\ saved = <<>>
    /\ eng = EngIdle
    /\ \E d \in 1..MaxPerftDepth :
           perft = [active |-> TRUE, depth |-> d, stack |-> <<PerftFrame(start_pos)>>,
                    leaves |-> 0, done |-> FALSE]

perft_top == last(perft.stack)

\* Leave the node on top of the stack: unmake the move that led to it.
perft_leave(counted) ==
    /\ perft' = [perft EXCEPT !.stack = pop(@),
                              !.leaves = @ + counted,
                              !.done = Len(perft.stack) = 1]
    /\ board' = unmake_move(board)
    /\ saved' = IF Len(saved) = 0 THEN saved ELSE pop(saved)

\* A node at ply depth-1: each of its moves is a leaf.
PerftCount ==
    /\ perft.active /\ ~perft.done
    /\ Len(perft.stack) = perft.depth
    /\ perft_leave(Len(perft_top.moves))
    /\ UNCHANGED eng

\* An inner node with a move left: make it and generate the child's moves.
PerftMake ==
    /\ perft.active /\ ~perft.done
    /\ Len(perft.stack) < perft.depth
    /\ perft_top.i <= Len(perft_top.moves)
    /\ \E child \in {make_move(board, perft_top.moves[perft_top.i])} :
           /\ board' = child
           /\ perft' = [perft EXCEPT
                  !.stack = Append([@ EXCEPT ![Len(@)].i = @ + 1], PerftFrame(child))]
    /\ saved' = Append(saved, board)
    /\ UNCHANGED eng

\* An inner node with no move left.
PerftReturn ==
    /\ perft.active /\ ~perft.done
    /\ Len(perft.stack) < perft.depth
    /\ perft_top.i > Len(perft_top.moves)
    /\ perft_leave(0)
    /\ UNCHANGED eng

PerftNext == PerftCount \/ PerftMake \/ PerftReturn

SpecPerft == PerftInit /\ [][PerftNext]_vars

INF == 1000000

MATE == 900000

\* A u64 is the set of the positions of its one bits (bit 0 the least
\* significant), which makes ^ the symmetric difference.
xor(a, b) == (a \ b) \cup (b \ a)

shl(a, k) == {j + k : j \in {x \in a : x + k <= 63}}

shr(a, k) == {j - k : j \in {x \in a : x >= k}}

\* The value of a 16-digit hexadecimal literal, most significant digit first.
u64_from_hex(digits) ==
    UNION {{4 * (16 - k) + j : j \in {x \in 0..3 : (digits[k] \div (2 ^ x)) % 2 = 1}} :
           k \in 1..16}

\* 0x123456789abcdef0
ZobristSeed == u64_from_hex(<<1, 2, 3, 4, 5, 6, 7, 8, 9, 10, 11, 12, 13, 14, 15, 0>>)

\* s ^= s << 13; s ^= s >> 7; s ^= s << 17
xorshift_13(s) == xor(s, shl(s, 13))

xorshift_7(s) == xor(s, shr(s, 7))

xorshift_17(s) == xor(s, shl(s, 17))

xorshift(s) == xorshift_17(xorshift_7(xorshift_13(s)))

\* The next n >= 1 values of r() after the state s: the first half, then the
\* second half drawn from where the first one ended.
RECURSIVE xorshift_run(_, _)
xorshift_run(s, n) ==
    IF n = 1 THEN <<xorshift(s)>>
    ELSE CHOOSE run \in {front \o xorshift_run(front[n \div 2], n - n \div 2) :
                         front \in {xorshift_run(s, n \div 2)}} : TRUE

\* Zobrist::new draws side, then pieces[c][p][sq] in the order of its loops,
\* then ep[i], then castle[i]: 1 + 768 + 64 + 16 values.
ZobristKeys == xorshift_run(ZobristSeed, 1 + 768 + 64 + 16)

color_index(c) == IF c = "White" THEN 0 ELSE 1

piece_index(p) ==
    CASE p = "Pawn" -> 0 [] p = "Knight" -> 1 [] p = "Bishop" -> 2
      [] p = "Rook" -> 3 [] p = "Queen" -> 4 [] p = "King" -> 5

zob_side == ZobristKeys[1]

zob_pieces(c, p, sq) == ZobristKeys[2 + 384 * color_index(c) + 64 * piece_index(p) + sq]

zob_ep(i) == ZobristKeys[770 + i]

zob_castle(i) == ZobristKeys[834 + i]

\* The xor of key(sq) over the squares lo..hi.
RECURSIVE xor_range(_, _, _)
xor_range(key(_), lo, hi) ==
    IF lo > hi THEN {}
    ELSE IF lo = hi THEN key(lo)
    ELSE xor(xor_range(key, lo, (lo + hi) \div 2),
             xor_range(key, (lo + hi) \div 2 + 1, hi))

\* Zobrist::hash
hash(b) ==
    LET key(sq) == IF is_some(b.squares[sq])
                   THEN zob_pieces(b.squares[sq][1].color, b.squares[sq][1].piece, sq)
                   ELSE {}
        h1 == xor_range(key, 0, 63)
        h2 == IF b.side = "Black" THEN xor(h1, zob_side) ELSE h1
        h3 == xor(h2, zob_castle(b.castling % 16))
    IN IF is_some(b.ep_square) THEN xor(h3, zob_ep(b.ep_square[1])) ELSE h3

\* ---- Transposition table.  Of the 1 << 20 slots the model holds those that
\* were written; every other slot holds the entry TT::new filled it with.  A
\* slot is named by the low bits of the hash (hash as usize & mask).

TTIndexBits == 20

TTEntry(h, depth, score, flag, mv) ==
    [hash |-> h, depth |-> depth, score |-> score, flag |-> flag, mv |-> mv]

tt_new_entry == TTEntry({}, 0, 0, 0, null_move)

tt_index(h) == {j \in h : j < TTIndexBits}

tt_slot(tt, h) == IF tt_index(h) \in DOMAIN tt THEN tt[tt_index(h)] ELSE tt_new_entry

map_put(m, k, v) == [x \in DOMAIN m \cup {k} |-> IF x = k THEN v ELSE m[x]]

\* TT::probe that takes a slot of depth 0 for an entry.
probe_ignores_depth(tt, h) ==
    LET e == tt_slot(tt, h) IN
    IF e.hash = h THEN Some(e) ELSE None

\* TT::probe
probe(tt, h) ==
    LET e == tt_slot(tt, h) IN
    IF e.hash = h /\ e.depth > 0 THEN Some(e) ELSE None

\* TT::store that replaces the slot whatever it holds.
store_always(tt, h, depth, score, flag, mv) ==
    map_put(tt, tt_index(h), TTEntry(h, depth, score, flag, mv))

\* TT::store that keeps a deeper entry of another position.
store_depth_preferred(tt, h, depth, score, flag, mv) ==
    LET e == tt_slot(tt, h) IN
    IF depth >= e.depth
    THEN map_put(tt, tt_index(h), TTEntry(h, depth, score, flag, mv))
    ELSE tt

\* TT::store
store(tt, h, depth, score, flag, mv) ==
    LET e == tt_slot(tt, h) IN
    IF e.hash # h \/ depth >= e.depth
    THEN map_put(tt, tt_index(h), TTEntry(h, depth, score, flag, mv))
    ELSE tt

\* TT::clear that leaves the table as it is.
clear_keeps(tt) == tt

\* TT::clear
clear(tt) == [x \in DOMAIN tt |-> [tt[x] EXCEPT !.depth = 0]]

\* ---- SearchEngine.  killer and history hold the entries that were written;
\* the others are None and 0.  elapsed is what elapsed_ms() last returned,
\* as its place relative to time_limit: "Early" below time_limit / 2, "Half"
\* from there to time_limit, "Over" from time_limit on.  stdin holds the lines
\* that were sent and that main has not read yet, gos counts the "go" lines
\* main has read, checks the calls of check_time since search was called.

new_engine ==
    [active |-> TRUE, tt |-> <<>>, nodes |-> 0, killer |-> <<>>, history |-> <<>>,
     rep_table |-> <<>>, elapsed |-> "Early", stopped |-> FALSE,
     status |-> "idle", go_depth |-> 0, max_depth |-> 0, depth |-> 0,
     best |-> null_move, best_score |-> 0, info |-> <<>>, result |-> None,
     stack |-> <<>>, ret |-> None, stdin |-> <<>>, gos |-> 0, checks |-> 0]

\* SearchEngine::clear
engine_clear(e) ==
    [e EXCEPT !.tt = clear(@), !.nodes = 0, !.killer = <<>>, !.history = <<>>,
              !.rep_table = <<>>, !.stopped = FALSE]

\* SearchEngine::push_position
push_position(e, b) == [e EXCEPT !.rep_table = Append(@, hash(b))]

\* What a later call of elapsed_ms() can return.
later(t) ==
    CASE t = "Early" -> {"Early", "Half", "Over"}
      [] t = "Half" -> {"Half", "Over"}
      [] t = "Over" -> {"Over"}

\* SearchEngine::check_time, elapsed_ms() returning `now`.
check_time(e, now) ==
    [e EXCEPT !.elapsed = now, !.stopped = @ \/ now = "Over", !.checks = @ + 1]

\* SearchEngine::is_draw
is_draw(e, h, halfmove) ==
    halfmove >= 100 \/ count_eq(e.rep_table, h) >= 2

killer_at(e, ply) == IF ply \in DOMAIN e.killer THEN e.killer[ply] ELSE <<None, None>>

history_at(e, from, to) ==
    IF <<from, to>> \in DOMAIN e.history THEN e.history[<<from, to>>] ELSE 0

\* The key of SearchEngine::order without the bonus of the TT move.
order_score_without_tt(e, mv, tt_mv, ply) ==
      (IF is_some(mv.captured) THEN 1000000 + piece_value(mv.captured[1]) * 10 - 100 ELSE 0)
    + (IF mv.promotion = Some("Queen") THEN 900000 ELSE 0)
    + (IF ply < 128 /\ killer_at(e, ply)[1] = Some(mv) THEN 800000 ELSE 0)
    + (IF ply < 128 /\ killer_at(e, ply)[2] = Some(mv) THEN 700000 ELSE 0)
    + min(history_at(e, mv.from, mv.to), 600000)

\* The key of SearchEngine::order, before its negation.
order_score(e, mv, tt_mv, ply) ==
      (IF Some(mv) = tt_mv THEN 2000000 ELSE 0)
    + (IF is_some(mv.captured) THEN 1000000 + piece_value(mv.captured[1]) * 10 - 100 ELSE 0)
    + (IF mv.promotion = Some("Queen") THEN 900000 ELSE 0)
    + (IF ply < 128 /\ killer_at(e, ply)[1] = Some(mv) THEN 800000 ELSE 0)
    + (IF ply < 128 /\ killer_at(e, ply)[2] = Some(mv) THEN 700000 ELSE 0)
    + min(history_at(e, mv.from, mv.to), 600000)

\* sort_by_cached_key, a stable sort: the place of s[j] is behind the
\* elements of a smaller key and the earlier elements of the same key.
sort_by_cached_key(s, keys) ==
    LET before(j) == {l \in 1..Len(s) : keys[l] < keys[j] \/ (keys[l] = keys[j] /\ l < j)}
        place == [j \in 1..Len(s) |-> 1 + Cardinality(before(j))] \o <<>>
    IN [k \in 1..Len(s) |-> s[CHOOSE j \in 1..Len(s) : place[j] = k]] \o <<>>

\* SearchEngine::order
order(e, moves, h, ply) ==
    LET hit == probe(e.tt, h)
        tt_mv == IF is_some(hit) THEN Some(hit[1].mv) ELSE None
        keys == [j \in 1..Len(moves) |-> -order_score(e, moves[j], tt_mv, ply)] \o <<>>
    IN sort_by_cached_key(moves, keys)

\* ---- The call stack of search / pvs / qsearch.  A frame is one call of pvs
\* or qsearch with its arguments and locals; pc is where it stands: "enter"
\* before its first statement, otherwise the call it waits for.  eng.ret is
\* the value the call that has just returned hands to its caller.

Frame(fn, depth, alpha, beta, ply) ==
    [fn |-> fn, pc |-> "enter", depth |-> depth, alpha |-> alpha, beta |-> beta,
     ply |-> ply, hash |-> {}, moves |-> <<>>, i |-> 0, best_mv |-> null_move,
     raised_alpha |-> FALSE, stand_pat |-> 0]

Step(b, e) == [board |-> b, eng |-> e]

top(e) == last(e.stack)

set_top(e, f) == [e EXCEPT !.stack = Append(pop(@), f)]

\* `return v` of the call on top of the stack.
return(b, e, v) == Step(b, [e EXCEPT !.stack = pop(@), !.ret = Some(v)])

\* A call from the frame on top of the stack.
call(b, e, f) == Step(b, [e EXCEPT !.stack = Append(@, f), !.ret = None])

\* The TT lookup of pvs: the entry ends the node.
tt_cutoff(hit, depth, alpha, beta) ==
    /\ is_some(hit)
    /\ hit[1].depth >= depth
    /\ \/ hit[1].flag = 0
       \/ hit[1].flag = 1 /\ hit[1].score >= beta
       \/ hit[1].flag = 2 /\ hit[1].score <= alpha

\* The value of a node without legal moves, with a checkmate scored as a stalemate.
no_moves_score_stalemate(b, ply) == 0

\* The value of a node without legal moves.
no_moves_score(b, ply) == IF in_check(b) THEN -MATE + ply ELSE 0

\* The reduction of a late move at depth >= 3, whatever the move is.
reduction_of_any_move(b1, mv, i, depth) ==
    IF i >= 3 /\ depth >= 3 THEN 1 ELSE 0

\* The reduction of a late quiet move, whatever the depth is.
reduction_at_any_depth(b1, mv, i, depth) ==
    IF /\ i >= 3
       /\ is_none(mv.captured) /\ is_none(mv.promotion)
       /\ ~in_check(b1)
    THEN 1 ELSE 0

\* The reduction of the i-th move (i counted from 0), made on b1.
reduction(b1, mv, i, depth) ==
    IF /\ i >= 3 /\ depth >= 3
       /\ is_none(mv.captured) /\ is_none(mv.promotion)
       /\ ~in_check(b1)
    THEN 1 ELSE 0

\* The body of the loop of pvs up to its first call: make the move f.moves[i]
\* and search it, the first move with the full window, the others with a
\* null window and a reduced depth.
pvs_make(b, e, f, i) ==
    LET mv == f.moves[i]
        b1 == make_move(b, mv)
        r == reduction(b1, mv, i - 1, f.depth)
    IN IF i = 1
       THEN call(b1, set_top(e, [f EXCEPT !.i = i, !.pc = "first"]),
                 Frame("pvs", wrap_u8(f.depth - 1), -f.beta, -f.alpha, f.ply + 1))
       ELSE call(b1, set_top(e, [f EXCEPT !.i = i, !.pc = "scout"]),
                 Frame("pvs", wrap_u8(f.depth - 1 - r), -f.alpha - 1, -f.alpha, f.ply + 1))

\* The killer and history update of a quiet move that fails high.
note_cutoff(e, mv, depth, ply) ==
    IF is_none(mv.captured) /\ ply < 128
    THEN [e EXCEPT !.killer = map_put(@, ply, <<Some(mv), killer_at(e, ply)[1]>>),
                   !.history = map_put(@, <<mv.from, mv.to>>,
                                       min(history_at(e, mv.from, mv.to) + depth * depth, 50000))]
    ELSE e

\* pvs from its first statement to its first call or its return, probing the
\* TT before the draw check.
pvs_enter_tt_first(b, e, now) ==
    LET f == top(e)
        counted == [e EXCEPT !.nodes = @ + 1]
        e1 == IF counted.nodes % 2048 = 0 THEN check_time(counted, now) ELSE counted
        h == hash(b)
        hit == probe(e1.tt, h)
        moves == generate_moves(b)
        ordered == order(e1, moves, h, f.ply)
        f1 == [f EXCEPT !.hash = h, !.moves = ordered, !.best_mv = ordered[1]]
    IN IF e1.stopped THEN return(b, e1, 0)
       ELSE IF tt_cutoff(hit, f.depth, f.alpha, f.beta) THEN return(b, e1, hit[1].score)
       ELSE IF f.ply > 0 /\ is_draw(e1, h, b.halfmove) THEN return(b, e1, 0)
       ELSE IF f.depth = 0
            THEN call(b, set_top(e1, [f EXCEPT !.hash = h, !.pc = "qsearch"]),
                      Frame("qsearch", 0, f.alpha, f.beta, f.ply))
       ELSE IF moves = <<>> THEN return(b, e1, no_moves_score(b, f.ply))
       ELSE pvs_make(b, [e1 EXCEPT !.rep_table = Append(@, h)], f1, 1)

\* pvs from its first statement to its first call or its return.
pvs_enter(b, e, now) ==
    LET f == top(e)
        counted == [e EXCEPT !.nodes = @ + 1]
        e1 == IF counted.nodes % 2048 = 0 THEN check_time(counted, now) ELSE counted
        h == hash(b)
        hit == probe(e1.tt, h)
        moves == generate_moves(b)
        ordered == order(e1, moves, h, f.ply)
        f1 == [f EXCEPT !.hash = h, !.moves = ordered, !.best_mv = ordered[1]]
    IN IF e1.stopped THEN return(b, e1, 0)
       ELSE IF f.ply > 0 /\ is_draw(e1, h, b.halfmove) THEN return(b, e1, 0)
       ELSE IF tt_cutoff(hit, f.depth, f.alpha, f.beta) THEN return(b, e1, hit[1].score)
       ELSE IF f.depth = 0
            THEN call(b, set_top(e1, [f EXCEPT !.hash = h, !.pc = "qsearch"]),
                      Frame("qsearch", 0, f.alpha, f.beta, f.ply))
       ELSE IF moves = <<>> THEN return(b, e1, no_moves_score(b, f.ply))
       ELSE pvs_make(b, [e1 EXCEPT !.rep_table = Append(@, h)], f1, 1)

\* pvs after board.unmake_move(), with a fail high that returns without
\* rep_table.pop().
pvs_scored_cutoff_keeps_hash(b, e, f, score) ==
    LET mv == f.moves[f.i]
        popped == [e EXCEPT !.rep_table = pop(@)]
        f1 == IF score > f.alpha
              THEN [f EXCEPT !.alpha = score, !.best_mv = mv, !.raised_alpha = TRUE]
              ELSE f
    IN IF e.stopped THEN return(b, popped, 0)
       ELSE IF score > f.alpha /\ score >= f.beta
            THEN return(b, [note_cutoff(e, mv, f.depth, f.ply) EXCEPT
                               !.tt = store(@, f.hash, f.depth, f.beta, 1, mv)],
                        f.beta)
       ELSE IF f.i < Len(f.moves) THEN pvs_make(b, e, f1, f.i + 1)
       ELSE return(b, [popped EXCEPT
                          !.tt = store(@, f.hash, f.depth, f1.alpha,
                                       IF f1.raised_alpha THEN 0 ELSE 2, f1.best_mv)],
                   f1.alpha)

\* pvs after board.unmake_move(), without the test of stopped.
pvs_scored_stores_when_stopped(b, e, f, score) ==
    LET mv == f.moves[f.i]
        popped == [e EXCEPT !.rep_table = pop(@)]
        f1 == IF score > f.alpha
              THEN [f EXCEPT !.alpha = score, !.best_mv = mv, !.raised_alpha = TRUE]
              ELSE f
    IN IF score > f.alpha /\ score >= f.beta
       THEN return(b, [note_cutoff(popped, mv, f.depth, f.ply) EXCEPT
                          !.tt = store(@, f.hash, f.depth, f.beta, 1, mv)],
                   f.beta)
       ELSE IF f.i < Len(f.moves) THEN pvs_make(b, e, f1, f.i + 1)
       ELSE return(b, [popped EXCEPT
                          !.tt = store(@, f.hash, f.depth, f1.alpha,
                                       IF f1.raised_alpha THEN 0 ELSE 2, f1.best_mv)],
                   f1.alpha)

\* pvs after board.unmake_move() of the move f.moves[f.i], searched to `score`.
pvs_scored(b, e, f, score) ==
    LET mv == f.moves[f.i]
        popped == [e EXCEPT !.rep_table = pop(@)]
        f1 == IF score > f.alpha
              THEN [f EXCEPT !.alpha = score, !.best_mv = mv, !.raised_alpha = TRUE]
              ELSE f
    IN IF e.stopped THEN return(b, popped, 0)
       ELSE IF score > f.alpha /\ score >= f.beta
            THEN return(b, [note_cutoff(popped, mv, f.depth, f.ply) EXCEPT
                               !.tt = store(@, f.hash, f.depth, f.beta, 1, mv)],
                        f.beta)
       ELSE IF f.i < Len(f.moves) THEN pvs_make(b, e, f1, f.i + 1)
       ELSE return(b, [popped EXCEPT
                          !.tt = store(@, f.hash, f.depth, f1.alpha,
                                       IF f1.raised_alpha THEN 0 ELSE 2, f1.best_mv)],
                   f1.alpha)

\* pvs when the call it waits for has returned v.
pvs_resume(b, e) ==
    LET f == top(e)
        v == e.ret[1]
    IN IF f.pc = "qsearch" THEN return(b, e, v)
       ELSE IF f.pc = "scout" /\ -v > f.alpha
            THEN call(b, set_top(e, [f EXCEPT !.pc = "research"]),
                      Frame("pvs", wrap_u8(f.depth - 1), -f.beta, -f.alpha, f.ply + 1))
       ELSE pvs_scored(unmake_move(b), e, f, -v)

\* The loop of qsearch from the capture after f.moves[f.i] to its next call
\* or its return: the captures that cannot reach alpha are skipped.
qsearch_loop(b, e, f) ==
    LET gain(mv) == IF is_some(mv.captured) THEN piece_value(mv.captured[1]) ELSE 0
        tried == {j \in (f.i + 1)..Len(f.moves) :
                     ~(f.stand_pat + gain(f.moves[j]) + 200 < f.alpha)}
        next == CHOOSE j \in tried : \A other \in tried : j <= other
    IN IF tried = {} THEN return(b, e, f.alpha)
       ELSE call(make_move(b, f.moves[next]),
                 set_top(e, [f EXCEPT !.i = next, !.pc = "capture"]),
                 Frame("qsearch", 0, -f.beta, -f.alpha, f.ply))

\* qsearch from its first statement to its first call or its return.
qsearch_enter(b, e) ==
    LET f == top(e)
        e1 == [e EXCEPT !.nodes = @ + 1]
        stand_pat == evaluate(b)
        f1 == [f EXCEPT !.stand_pat = stand_pat,
                        !.alpha = IF stand_pat > @ THEN stand_pat ELSE @,
                        !.moves = generate_captures(b)]
    IN IF e1.stopped THEN return(b, e1, 0)
       ELSE IF stand_pat >= f.beta THEN return(b, e1, f.beta)
       ELSE qsearch_loop(b, e1, f1)

\* qsearch when the call it waits for has returned, with a fail high that
\* returns without board.unmake_move().
qsearch_resume_cutoff_keeps_move(b, e) ==
    LET f == top(e)
        s == -e.ret[1]
        b1 == unmake_move(b)
    IN IF s >= f.beta THEN return(b, e, f.beta)
       ELSE qsearch_loop(b1, e, [f EXCEPT !.alpha = IF s > @ THEN s ELSE @])

\* qsearch when the call it waits for has returned v.
qsearch_resume(b, e) ==
    LET f == top(e)
        s == -e.ret[1]
        b1 == unmake_move(b)
    IN IF s >= f.beta THEN return(b1, e, f.beta)
       ELSE qsearch_loop(b1, e, [f EXCEPT !.alpha = IF s > @ THEN s ELSE @])

\* search after its loop, with the fallback move whatever the loop found.
search_finish_first_move(b, e) ==
    LET moves == generate_moves(b)
        best == IF moves # <<>> THEN moves[1] ELSE e.best
    IN Step(b, [e EXCEPT !.best = best, !.status = "done", !.ret = None,
                         !.result = Some(<<best, e.best_score>>)])

\* search after its loop, without the fallback move.
search_finish_no_fallback(b, e) ==
    Step(b, [e EXCEPT !.status = "done", !.ret = None,
                      !.result = Some(<<e.best, e.best_score>>)])

\* search after its loop: the fallback move and the result.
search_finish(b, e) ==
    LET moves == generate_moves(b)
        best == IF e.best.from = e.best.to /\ moves # <<>> THEN moves[1] ELSE e.best
    IN Step(b, [e EXCEPT !.best = best, !.status = "done", !.ret = None,
                         !.result = Some(<<best, e.best_score>>)])

\* One turn of `for depth in 1..=max_depth`: the call of pvs at the root.
search_iterate(b, e, depth) ==
    IF depth <= e.max_depth
    THEN Step(b, [e EXCEPT !.depth = depth, !.ret = None,
                           !.stack = <<Frame("pvs", depth, -INF, INF, 0)>>])
    ELSE search_finish(b, e)

\* SearchEngine::search up to its first call of pvs.
search(b, e, max_depth) ==
    search_iterate(b, [e EXCEPT !.nodes = 0, !.stopped = FALSE, !.elapsed = "Early",
                                !.checks = 0,
                                !.max_depth = max_depth, !.best = null_move,
                                !.best_score = 0, !.status = "searching"], 1)

\* search when pvs at the root has returned, taking the score and the TT move
\* of an iteration that was stopped.
search_scored_keeps_partial(b, e, now) ==
    LET score == e.ret[1]
        hit == probe(e.tt, hash(b))
        best == IF is_some(hit) /\ hit[1].mv.from # hit[1].mv.to THEN hit[1].mv ELSE e.best
        e1 == [e EXCEPT !.best_score = score, !.best = best, !.elapsed = now,
                        !.info = Append(@, [depth |-> e.depth, score |-> score,
                                            nodes |-> e.nodes, pv |-> best])]
    IN IF e.stopped THEN search_finish(b, e1)
       ELSE IF abs(score) > MATE - 1000 THEN search_finish(b, e1)
       ELSE IF now \in {"Half", "Over"} THEN search_finish(b, e1)
       ELSE search_iterate(b, e1, e.depth + 1)

\* search when pvs at the root has returned: the rest of the loop body,
\* elapsed_ms() returning `now`.
search_scored(b, e, now) ==
    LET score == e.ret[1]
        hit == probe(e.tt, hash(b))
        best == IF is_some(hit) /\ hit[1].mv.from # hit[1].mv.to THEN hit[1].mv ELSE e.best
        e1 == [e EXCEPT !.best_score = score, !.best = best, !.elapsed = now,
                        !.info = Append(@, [depth |-> e.depth, score |-> score,
                                            nodes |-> e.nodes, pv |-> best])]
    IN IF e.stopped THEN search_finish(b, e)
       ELSE IF abs(score) > MATE - 1000 THEN search_finish(b, e1)
       ELSE IF now \in {"Half", "Over"} THEN search_finish(b, e1)
       ELSE search_iterate(b, e1, e.depth + 1)

\* ---- The adapter (main.rs).

FILES == <<"a", "b", "c", "d", "e", "f", "g", "h">>

RANKS == <<"1", "2", "3", "4", "5", "6", "7", "8">>

\* Move::to_uci
to_uci(mv) ==
    IF mv.from = 0 /\ mv.to = 0 THEN <<"0", "0", "0", "0">>
    ELSE <<FILES[(mv.from % 8) + 1], RANKS[(mv.from \div 8) + 1],
           FILES[(mv.to % 8) + 1], RANKS[(mv.to \div 8) + 1]>>
         \o (CASE mv.promotion = Some("Queen") -> <<"q">>
               [] mv.promotion = Some("Rook") -> <<"r">>
               [] mv.promotion = Some("Bishop") -> <<"b">>
               [] mv.promotion = Some("Knight") -> <<"n">>
               [] OTHER -> <<>>)

\* Board::make_uci_move that plays the first legal move for a string it does
\* not find.
make_uci_move_plays_anyway(b, uci) ==
    LET moves == generate_moves(b)
        found == {j \in 1..Len(moves) : to_uci(moves[j]) = uci}
    IN IF moves = <<>> THEN b
       ELSE IF found = {} THEN make_move(b, moves[1])
       ELSE make_move(b, moves[CHOOSE j \in found : \A other \in found : j <= other])

\* What Board::make_uci_move returns.
make_uci_move_returns(b, uci) ==
    LET moves == generate_moves(b)
    IN \E j \in 1..Len(moves) : to_uci(moves[j]) = uci

\* Board::make_uci_move
make_uci_move(b, uci) ==
    LET moves == generate_moves(b)
        found == {j \in 1..Len(moves) : to_uci(moves[j]) = uci}
    IN IF found = {} THEN b
       ELSE make_move(b, moves[CHOOSE j \in found : \A other \in found : j <= other])

\* The moves lo..hi of a "position ... moves ..." line made on b.
RECURSIVE make_uci_moves(_, _, _, _)
make_uci_moves(b, moves, lo, hi) ==
    IF lo > hi THEN b
    ELSE IF lo = hi THEN make_uci_move(b, moves[lo])
    ELSE CHOOSE after \in {make_uci_moves(half, moves, (lo + hi) \div 2 + 1, hi) :
                           half \in {make_uci_moves(b, moves, lo, (lo + hi) \div 2)}} : TRUE

\* parse_position of "position fen <fen> moves <moves>"
parse_position(fen, moves) == make_uci_moves(from_fen(fen), moves, 1, Len(moves))

\* ---- The games the engine is asked to search.  A game is the FEN and the
\* moves of its "position" lines, `sent` the number of moves in each of the
\* successive lines (the adapter calls push_position once per line), and the
\* largest depth of the "go depth" that follows.

MaxSearchDepth == 4

MaxLockedDepth == 4

MaxClockDepth == 4

\* 7k/8/6K1/8/8/8/8/5Q2 w - - 0 1: Qf8 mates, Qf7 stalemates.
QueenFen ==
    << <<"7","k","/","8","/","6","K","1","/","8","/","8","/","8","/","8","/","5","Q","2">>,
       <<"w">>, <<"-">>, <<"-">>, <<"0">>, <<"1">> >>

\* k7/8/8/8/8/8/8/3Q2K1 w - - 0 1
ShuffleFen ==
    << <<"k","7","/","8","/","8","/","8","/","8","/","8","/","8","/","3","Q","2","K","1">>,
       <<"w">>, <<"-">>, <<"-">>, <<"0">>, <<"1">> >>

\* k7/8/8/8/3Q4/8/6K1/8 w - - 0 1
RepeatFen ==
    << <<"k","7","/","8","/","8","/","8","/","3","Q","4","/","8","/","6","K","1","/","8">>,
       <<"w">>, <<"-">>, <<"-">>, <<"0">>, <<"1">> >>

\* 5b1k/4p1p1/4P1P1/7p/7P/1p1p4/1P1P4/K1B5 w - - 0 1: the pawns and the
\* bishops are locked, the white king has a1 and b1, the black king h8 and g8.
LockedFen ==
    << <<"5","b","1","k","/","4","p","1","p","1","/","4","P","1","P","1","/","7","p","/",
         "7","P","/","1","p","1","p","4","/","1","P","1","P","4","/","K","1","B","5">>,
       <<"w">>, <<"-">>, <<"-">>, <<"0">>, <<"1">> >>

\* g1g2 a8b8 g2g1 b8a8, over and over.
shuffle(n) ==
    LET cycle == << <<"g","1","g","2">>, <<"a","8","b","8">>,
                    <<"g","2","g","1">>, <<"b","8","a","8">> >>
    IN [k \in 1..n |-> cycle[((k - 1) % 4) + 1]]

\* d4d1 a8b8 d1d4 b8a8 d4d1 a8b8
RepeatMoves ==
    << <<"d","4","d","1">>, <<"a","8","b","8">>, <<"d","1","d","4">>,
       <<"b","8","a","8">>, <<"d","4","d","1">>, <<"a","8","b","8">> >>

Game(fen, moves, sent, depth) ==
    [fen |-> fen, moves |-> moves, sent |-> sent, depth |-> depth]

Games ==
    { Game(MateFen, <<>>, <<0>>, MaxSearchDepth),
      Game(QueenFen, <<>>, <<0>>, MaxSearchDepth),
      \* one line of 98 moves without a capture or a pawn move
      Game(ShuffleFen, shuffle(98), <<98>>, MaxSearchDepth),
      \* a line every second move: the position with the queen on d4 and the
      \* black king on a8 was sent twice
      Game(RepeatFen, RepeatMoves, <<0, 2, 4, 6>>, MaxSearchDepth),
      \* after four plies the root position is back
      Game(LockedFen, <<>>, <<0>>, MaxLockedDepth),
      \* the 2048th node is a node of pvs, in the fourth iteration
      Game(ShuffleFen, <<>>, <<0>>, MaxClockDepth),
      \* Black to move is checkmated
      Game(QueenFen, << <<"f","1","f","8">> >>, <<1>>, MaxSearchDepth),
      \* Black to move is stalemated
      Game(QueenFen, << <<"f","1","f","7">> >>, <<1>>, MaxSearchDepth) }

\* The board after the k-th "position" line of the game.
position_sent(g, k) == parse_position(g.fen, SubSeq(g.moves, 1, g.sent[k]))

\* The engine after the "position" lines of the game: main creates it and
\* pushes the position of each line.
engine_told(g) ==
    [new_engine EXCEPT !.rep_table = [k \in 1..Len(g.sent) |-> hash(position_sent(g, k))]]

SearchInit ==
    \E g \in Games : \E d \in 0..g.depth :
        /\ board = position_sent(g, Len(g.sent))
        /\ eng = [engine_told(g) EXCEPT !.go_depth = d]
        /\ saved = <<>>
        /\ perft = PerftIdle

took(n) ==
    /\ board' = n.board
    /\ eng' = n.eng
    /\ UNCHANGED <<saved, perft>>

\* What search is called with: the caller's board and the rep_table of the engine.
called(b, e) == [op |-> "search", board |-> b, rep_table |-> e.rep_table]

\* "go depth d": main clears the TT and calls search.  saved keeps what
\* search was called with.
Go ==
    /\ eng.status = "idle"
    /\ \E n \in {search(board, [eng EXCEPT !.tt = clear(@), !.gos = @ + 1], eng.go_depth)} :
           /\ board' = n.board
           /\ eng' = n.eng
           /\ saved' = <<called(board, eng)>>
           /\ UNCHANGED perft

running(fn) ==
    /\ eng.status = "searching"
    /\ eng.stack # <<>>
    /\ top(eng).fn = fn

PvsEnter ==
    /\ running("pvs") /\ top(eng).pc = "enter"
    /\ \E now \in IF (eng.nodes + 1) % 2048 = 0 THEN later(eng.elapsed) ELSE {eng.elapsed} :
           \E n \in {pvs_enter(board, eng, now)} : took(n)

PvsResume ==
    /\ running("pvs") /\ top(eng).pc # "enter" /\ is_some(eng.ret)
    /\ \E n \in {pvs_resume(board, eng)} : took(n)

QsearchEnter ==
    /\ running("qsearch") /\ top(eng).pc = "enter"
    /\ \E n \in {qsearch_enter(board, eng)} : took(n)

QsearchResume ==
    /\ running("qsearch") /\ top(eng).pc # "enter" /\ is_some(eng.ret)
    /\ \E n \in {qsearch_resume(board, eng)} : took(n)

\* pvs at the root has returned to search.
SearchScored ==
    /\ eng.status = "searching" /\ eng.stack = <<>> /\ is_some(eng.ret)
    /\ \E now \in later(eng.elapsed) : \E n \in {search_scored(board, eng, now)} : took(n)

SearchNext ==
    Go \/ PvsEnter \/ PvsResume \/ QsearchEnter \/ QsearchResume \/ SearchScored

SpecSearch == SearchInit /\ [][SearchNext]_vars

\* ------------------------------------------------------------------ claims on the search

\* A call of pvs has just returned to the pvs that made it: board is the
\* position of the call (its caller has not yet unmade the move that led
\* there), eng.ret its value, the caller's frame on top of the stack.
pvs_returned ==
    /\ eng.status = "searching"
    /\ is_some(eng.ret)
    /\ eng.stack # <<>>
    /\ top(eng).fn = "pvs"
    /\ top(eng).pc \in {"first", "scout", "research"}

\* The moves generated at the nodes the search stands in.
moves_in_search == UNION {elements(eng.stack[k].moves) : k \in 1..Len(eng.stack)}

\* C5: every board the search passes through, whatever it has made and unmade,
\* holds exactly one white king and exactly one black king, and no move
\* generated at a node of the search captures a king.
C5_OneKingEach ==
    /\ Cardinality(king_squares(board, "White")) = 1
    /\ Cardinality(king_squares(board, "Black")) = 1
    /\ \A mv \in moves_in_search : mv.captured # Some("King")

\* qsearch stands behind a capture it has made, two plies below the root.
C5_Witness ==
    /\ eng.status = "searching"
    /\ Len(eng.stack) >= 4
    /\ top(eng).fn = "qsearch"
    /\ top(eng).pc = "enter"
    /\ is_some(last(board.history).mv.captured)
    /\ Cardinality(king_squares(board, "White")) = 1
    /\ Cardinality(king_squares(board, "Black")) = 1

\* The node of the call that has just returned is a draw for pvs: fifty
\* moves without progress, or its hash twice in rep_table.
returned_from_draw ==
    /\ pvs_returned
    /\ board.halfmove >= 100 \/ count_eq(eng.rep_table, hash(board)) >= 2

\* C8: a pvs node at ply > 0 whose board has halfmove >= 100 or whose hash
\* occurs at least twice in rep_table returns 0, whatever the material, the
\* window and the transposition table hold.
C8_DrawReturnsZero ==
    returned_from_draw => eng.ret = Some(0)

\* The drawn node has an entry in the transposition table that is deep enough,
\* exact, and not 0: probed first, it would have been the node's value.
C8_Witness ==
    /\ returned_from_draw
    /\ eng.ret = Some(0)
    /\ ~eng.stopped
    /\ is_some(probe(eng.tt, hash(board)))
    /\ probe(eng.tt, hash(board))[1].flag = 0
    /\ probe(eng.tt, hash(board))[1].score # 0

\* pvs is about to run at a node of depth >= 1 that is not a draw, has no TT
\* cutoff and no legal move, and the search is not stopped when it gets there.
at_node_without_moves ==
    /\ eng.status = "searching"
    /\ eng.stack # <<>>
    /\ top(eng).fn = "pvs"
    /\ top(eng).pc = "enter"
    /\ top(eng).depth >= 1
    /\ ~eng'.stopped
    /\ ~(top(eng).ply > 0
         /\ (board.halfmove >= 100 \/ count_eq(eng.rep_table, hash(board)) >= 2))
    /\ ~tt_cutoff(probe(eng.tt, hash(board)), top(eng).depth, top(eng).alpha, top(eng).beta)
    /\ generate_moves(board) = <<>>

\* C9: a pvs node with depth >= 1 that is not a draw, has no TT cutoff and no
\* legal move returns -MATE + ply when the side to move is in check and 0
\* otherwise, writes nothing to the TT and leaves rep_table as it was.
C9_NoMovesNode ==
    [][at_node_without_moves =>
           /\ eng'.ret = Some(IF in_check(board) THEN -MATE + top(eng).ply ELSE 0)
           /\ eng'.stack = pop(eng.stack)
           /\ eng'.tt = eng.tt
           /\ eng'.rep_table = eng.rep_table
           /\ board' = board]_vars

\* A checkmated node at ply 1 has returned -MATE + 1 to the root of a depth-2 search.
C9_Witness ==
    /\ pvs_returned
    /\ top(eng).ply = 0
    /\ top(eng).depth = 2
    /\ eng.ret = Some(-MATE + 1)
    /\ in_check(board)
    /\ generate_moves(board) = <<>>

\* The move checkmates on b.
checkmates(b, mv) ==
    LET b1 == make_move(b, mv) IN in_check(b1) /\ generate_moves(b1) = <<>>

\* The position after the move is no draw for pvs.
not_drawn_after(b, mv) ==
    LET b1 == make_move(b, mv) IN
    b1.halfmove < 100 /\ count_eq(eng.rep_table, hash(b1)) < 2

\* search has returned after completing its depth-2 iteration.
searched_two_plies ==
    /\ eng.status = "done"
    /\ \E k \in 1..Len(eng.info) : eng.info[k].depth = 2

\* The general part of C10: with a mating move at the root and the depth-2
\* iteration completed, search returns a mating move and the score MATE - 1.
mate_in_one_found ==
    (/\ searched_two_plies
     /\ \E mv \in elements(generate_moves(board)) :
            checkmates(board, mv) /\ not_drawn_after(board, mv))
    => /\ checkmates(board, eng.result[1][1])
       /\ eng.result[1][2] = MATE - 1
       /\ eng.result[1][2] >= MATE - 10

search_returned == eng.status = "done" /\ saved # <<>>

\* The moves made and not yet unmade by the frames of the stack: a frame has
\* one made while it waits for the search of that move.
moves_made ==
    Cardinality({k \in 1..Len(eng.stack) :
                    eng.stack[k].pc \in {"first", "scout", "research", "capture"}})

\* The hashes pushed and not yet popped by the frames of pvs, oldest first.
hashes_pushed ==
    LET pushing == SelectSeq(eng.stack, LAMBDA f : f.fn = "pvs"
                                 /\ f.pc \in {"first", "scout", "research"})
    IN [k \in 1..Len(pushing) |-> pushing[k].hash]

\* C11: when stopped was set in iteration d >= 2, search returns the move and
\* the score of iteration d - 1: the info line of that iteration, and the root
\* entry of the TT, which nothing has written since, hold them.
C11_StoppedIterationDiscarded ==
    (search_returned /\ eng.stopped /\ eng.depth >= 2) =>
        LET hit == probe(eng.tt, hash(board))
            line == last(eng.info)
        IN /\ Len(eng.info) = eng.depth - 1
           /\ line.depth = eng.depth - 1
           /\ eng.result = Some(<<line.pv, line.score>>)
           /\ is_some(hit)
           /\ hit[1].depth = eng.depth - 1
           /\ eng.result = Some(<<hit[1].mv, hit[1].score>>)

C11_Witness ==
    /\ search_returned /\ eng.stopped
    /\ eng.depth = 4
    /\ eng.nodes >= 2048
    /\ eng.result = Some(<<last(eng.info).pv, last(eng.info).score>>)
    /\ eng.result[1][2] # 0

\* C12: search returns a legal move of the root when there is one, the first
\* generated one when no iteration completed, and the null move, "0000",
\* exactly when the root has no legal move.
C12_ReturnsLegalMove ==
    search_returned =>
        LET moves == generate_moves(saved[1].board)
            mv == eng.result[1][1]
        IN /\ moves # <<>> => mv \in elements(moves)
           /\ (moves # <<>> /\ eng.info = <<>>) => mv = moves[1]
           /\ moves = <<>> => mv = null_move
           /\ (to_uci(mv) = <<"0", "0", "0", "0">>) <=> (moves = <<>>)

C12_Witness ==
    /\ search_returned
    /\ generate_moves(saved[1].board) = <<>>
    /\ in_check(saved[1].board)
    /\ eng.go_depth >= 1
    /\ to_uci(eng.result[1][1]) = <<"0", "0", "0", "0">>

\* C13: every make_move of pvs and qsearch is undone: during the search the
\* board is the caller's board with one move made for each frame that waits
\* for the search of a move, and when search returns it is the caller's
\* board, undo history included.
C13_BoardRestored ==
    saved # <<>> =>
        LET root == saved[1].board IN
        /\ eng.status = "searching" =>
               /\ Len(board.history) = Len(root.history) + moves_made
               /\ SubSeq(board.history, 1, Len(root.history)) = root.history
               /\ moves_made = 0 => board = root
        /\ eng.status = "done" => board = root

C13_Witness ==
    /\ search_returned /\ eng.stopped
    /\ board = saved[1].board
    /\ Len(eng.info) = 3

\* C14: rep_table is what search was called with followed by the hash of
\* each pvs frame that has started its loop, and what search was called with
\* when search returns.
C14_RepTableRestored ==
    saved # <<>> =>
        /\ eng.status = "searching" => eng.rep_table = saved[1].rep_table \o hashes_pushed
        /\ eng.status = "done" => eng.rep_table = saved[1].rep_table

C14_Witness ==
    /\ eng.status = "searching" /\ eng.stopped
    /\ is_some(eng.ret)
    /\ Len(hashes_pushed) = 2
    /\ eng.rep_table = saved[1].rep_table \o hashes_pushed

\* ------------------------------------------------------------------ the transposition table alone

\* The calls of TT::store, TT::probe and TT::clear on one table, in any order.
\* The hashes are 0, two pairs that differ above the index bits, and one that
\* differs in the top bit; saved holds the last call as it was made: its
\* arguments, the table before it and, for probe, what it returned.

MaxTTDepth == 2

TTHashes == {{}, {TTIndexBits}, {0}, {0, TTIndexBits}, {0, 63}}

TTScores == {3, -4}

TTInit ==
    /\ board = start_pos
    /\ saved = <<>>
    /\ perft = PerftIdle
    /\ eng = new_engine

TTStore ==
    \E h \in TTHashes : \E depth \in 0..MaxTTDepth : \E score \in TTScores :
        /\ eng' = [eng EXCEPT !.tt = store(@, h, depth, score, depth % 3, null_move)]
        /\ saved' = <<[op |-> "store", tt |-> eng.tt, hash |-> h,
                       entry |-> TTEntry(h, depth, score, depth % 3, null_move)]>>
        /\ UNCHANGED <<board, perft>>

TTProbe ==
    \E h \in TTHashes :
        /\ saved' = <<[op |-> "probe", tt |-> eng.tt, hash |-> h, out |-> probe(eng.tt, h)]>>
        /\ UNCHANGED <<board, perft, eng>>

TTClear ==
    /\ eng' = [eng EXCEPT !.tt = clear(@)]
    /\ saved' = <<[op |-> "clear", tt |-> eng.tt]>>
    /\ UNCHANGED <<board, perft>>

TTNext == TTStore \/ TTProbe \/ TTClear

SpecTT == TTInit /\ [][TTNext]_vars

\* The slot hash as usize & mask names, as the table tt holds it: the
\* written slot whose index has the low bits of the hash, or the entry of
\* TT::new.
slot_of(tt, h) ==
    LET low == h \cap 0..(TTIndexBits - 1)
    IN IF \E x \in DOMAIN tt : x = low THEN tt[low] ELSE tt_new_entry

\* The slot of another index is what it was before the call.
other_slots_kept(before, after, h) ==
    \A g \in TTHashes :
        (g \cap 0..(TTIndexBits - 1)) # (h \cap 0..(TTIndexBits - 1)) =>
            slot_of(after, g) = slot_of(before, g)

last_call(op) == saved # <<>> /\ saved[1].op = op

\* C15: probe(h) returns an entry iff the slot at h AND (size - 1) holds the
\* hash h with depth > 0, and then it returns that slot, whose hash is h.
C15_ProbeHit ==
    last_call("probe") =>
        LET c == saved[1]
            slot == slot_of(c.tt, c.hash)
        IN /\ is_some(c.out) <=> (slot.hash = c.hash /\ slot.depth > 0)
           /\ is_some(c.out) => (c.out[1] = slot /\ c.out[1].hash = c.hash)

\* probe of a hash whose slot holds the same hash with depth 0, after clear
C15_Witness ==
    /\ last_call("probe")
    /\ slot_of(saved[1].tt, saved[1].hash).hash = saved[1].hash
    /\ saved[1].hash # {}
    /\ slot_of(saved[1].tt, saved[1].hash).depth = 0
    /\ slot_of(saved[1].tt, saved[1].hash).score # 0
    /\ saved[1].out = None

\* C16: store overwrites the slot of h iff the slot is empty, holds another
\* hash, or the new depth is >= the stored depth; otherwise the slot is left
\* as it is; no other slot changes.
C16_StoreReplaces ==
    last_call("store") =>
        LET c == saved[1]
            old == slot_of(c.tt, c.hash)
            replace == old.depth = 0 \/ old.hash # c.hash \/ c.entry.depth >= old.depth
        IN /\ replace => slot_of(eng.tt, c.hash) = c.entry
           /\ ~replace => slot_of(eng.tt, c.hash) = old
           /\ other_slots_kept(c.tt, eng.tt, c.hash)

\* a store of the same hash with a smaller depth, that left the slot alone
C16_Witness ==
    /\ last_call("store")
    /\ slot_of(saved[1].tt, saved[1].hash).hash = saved[1].hash
    /\ saved[1].entry.depth < slot_of(saved[1].tt, saved[1].hash).depth
    /\ saved[1].entry.score # slot_of(saved[1].tt, saved[1].hash).score
    /\ eng.tt = saved[1].tt
    /\ Cardinality(DOMAIN eng.tt) = 2

\* store meets a live entry of another hash in its slot
collision == last_call("store") /\ slot_of(saved[1].tt, saved[1].hash).hash # saved[1].hash
                 /\ slot_of(saved[1].tt, saved[1].hash).depth > 0

same_key == last_call("store") /\ slot_of(saved[1].tt, saved[1].hash).hash = saved[1].hash

\* C17 as stated: on a collision the resident entry is overwritten only if the
\* new depth is >= its depth, and a store on the same key always replaces.
C17_DepthPreferredOnCollision ==
    /\ (collision /\ slot_of(eng.tt, saved[1].hash) # slot_of(saved[1].tt, saved[1].hash)) =>
           saved[1].entry.depth >= slot_of(saved[1].tt, saved[1].hash).depth
    /\ same_key => slot_of(eng.tt, saved[1].hash) = saved[1].entry

\* C17: on a collision the resident entry is always overwritten, whatever the
\* depths; a store on the same key replaces iff the new depth is >= the
\* resident depth (depth-preferred on the same key, always-replace on collision).
C17_AlwaysReplaceOnCollision ==
    /\ collision => slot_of(eng.tt, saved[1].hash) = saved[1].entry
    /\ same_key =>
           slot_of(eng.tt, saved[1].hash) =
               IF saved[1].entry.depth >= slot_of(saved[1].tt, saved[1].hash).depth
               THEN saved[1].entry
               ELSE slot_of(saved[1].tt, saved[1].hash)

\* a shallower entry of another hash has replaced a deeper resident entry
C17_Witness ==
    /\ collision
    /\ saved[1].entry.depth < slot_of(saved[1].tt, saved[1].hash).depth
    /\ slot_of(eng.tt, saved[1].hash) = saved[1].entry
    /\ probe(eng.tt, slot_of(saved[1].tt, saved[1].hash).hash) = None

\* ------------------------------------------------------------------ moves in UCI notation

\* make_uci_move called with the rendering of the first or the last generated
\* move or with one of UciWords, and parse_position on a line of MaxLineMoves
\* of the words of UciLineWords.
\* saved holds the call: the board before it and the string, or the FEN and
\* the moves of the line.

MaxUciPly == 1

MaxLineMoves == 3

\* e2e4 e7e5 e2e5 b7b8 b7b8q
UciLineWords ==
    { <<"e","2","e","4">>, <<"e","7","e","5">>, <<"e","2","e","5">>, <<"b","7","b","8">>,
      <<"b","7","b","8","q">> }

\* and 0000 e1g1 e1c1 e5f6 b7a8n e2
UciWords ==
    UciLineWords \cup
    { <<"0","0","0","0">>, <<"e","1","g","1">>, <<"e","1","c","1">>, <<"e","5","f","6">>,
      <<"b","7","a","8","n">>, <<"e","2">> }

UciLineFens == {StartFen, PromoFen}

MakeUciMove ==
    /\ Len(board.history) < MaxUciPly
    /\ \E moves \in {generate_moves(board)} :
       \E uci \in UciWords \cup {to_uci(moves[j]) : j \in {1, Len(moves)} \cap DOMAIN moves} :
           /\ board' = make_uci_move(board, uci)
           /\ saved' = <<[op |-> "make_uci_move", board |-> board, uci |-> uci,
                          ok |-> make_uci_move_returns(board, uci)]>>
    /\ UNCHANGED <<perft, eng>>

\* main reads the line with the board it created.
PositionLine ==
    /\ saved = <<>> /\ board = start_pos
    /\ \E fen \in UciLineFens :
       \E moves \in {line \o <<>> : line \in [1..MaxLineMoves -> UciLineWords]} :
           /\ board' = parse_position(fen, moves)
           /\ saved' = <<[op |-> "position", fen |-> fen, moves |-> moves]>>
    /\ UNCHANGED <<perft, eng>>

UciMovesNext == MakeUciMove \/ PositionLine

SpecUciMoves == Init /\ [][UciMovesNext]_vars

\* The generated moves of b that are written uci.
written(b, uci) == {mv \in elements(generate_moves(b)) : to_uci(mv) = uci}

\* The boards a line goes through, move by move, a rejected move leaving the
\* board as it is.
RECURSIVE line_boards(_, _, _)
line_boards(b, moves, k) ==
    IF k > Len(moves) THEN <<b>>
    ELSE LET found == written(b, moves[k])
         IN <<b>> \o line_boards(IF found = {} THEN b
                                   ELSE make_move(b, CHOOSE mv \in found : TRUE),
                                   moves, k + 1)

\* C19: make_uci_move with a string that no generated move is written as
\* returns false and leaves the board as it is; with the string of a
\* generated move it makes exactly that move and returns true; and
\* parse_position goes on with the moves that follow a rejected one.
C19_UnknownMoveIgnored ==
    /\ last_call("make_uci_move") =>
           LET c == saved[1]
               found == written(c.board, c.uci)
           IN /\ found = {} => (~c.ok /\ board = c.board)
              /\ found # {} =>
                     /\ c.ok
                     /\ Cardinality(found) = 1
                     /\ \A mv \in found : board = make_move(c.board, mv)
    /\ last_call("position") =>
           LET c == saved[1]
               through == line_boards(from_fen(c.fen), c.moves, 1)
           IN /\ \A k \in 1..Len(c.moves) :
                     written(through[k], c.moves[k]) = {} =>
                         through[k + 1].history = through[k].history
              /\ Len(board.history) =
                     Cardinality({k \in 1..Len(c.moves) :
                                     Len(through[k + 1].history) = Len(through[k].history) + 1})
              /\ board = last(through)

\* e2e5 is rejected between e2e4 and e7e5, which are both made
C19_Witness ==
    /\ last_call("position")
    /\ saved[1].moves = << <<"e","2","e","4">>, <<"e","2","e","5">>, <<"e","7","e","5">> >>
    /\ Len(board.history) = 2
    /\ to_uci(board.history[2].mv) = <<"e","7","e","5">>
    /\ board.side = "White"

\* ------------------------------------------------------------------ the lines main reads

MaxUciDepth == 2

MaxGos == 2

\* The games whose "position" lines are sent, each with the largest depth
\* its "go" line asks.
UciGames ==
    { Game(LockedFen, <<>>, <<0>>, MaxUciDepth),
      Game(MateFen, <<>>, <<0>>, MaxUciDepth),
      Game(QueenFen, << <<"f","1","f","8">> >>, <<1>>, MaxUciDepth),
      \* one line with the moves d4d1 a8b8, searched to depth 0 only
      Game(RepeatFen, SubSeq(RepeatMoves, 1, 2), <<2>>, 0) }

\* main before its first line.
UciInit ==
    /\ board = start_pos
    /\ eng = new_engine
    /\ saved = <<>>
    /\ perft = PerftIdle

\* "position ...": the board of the line, pushed on rep_table.  The line is
\* sent when main waits for a line, the first time or after a bestmove, and
\* go_depth is the depth the "go" line after it asks.  saved keeps the line
\* and the rep_table main had when it read it.
Position ==
    /\ eng.status = "done" \/ (eng.status = "idle" /\ eng.rep_table = <<>>)
    /\ eng.gos < MaxGos
    /\ \E g \in UciGames : \E d \in 0..g.depth :
       \E b \in {position_sent(g, Len(g.sent))} :
           /\ board' = b
           /\ eng' = [push_position(eng, b) EXCEPT !.status = "idle", !.go_depth = d]
           /\ saved' = <<[op |-> "position", fen |-> g.fen,
                          moves |-> SubSeq(g.moves, 1, g.sent[Len(g.sent)]),
                          rep_table |-> eng.rep_table]>>
    /\ UNCHANGED perft

\* "ucinewgame": the start position and SearchEngine::clear.  A "go" line
\* that follows it without a "position" line asks depth 0.
UciNewGame ==
    /\ eng.status = "done"
    /\ eng.gos < MaxGos
    /\ board' = start_pos
    /\ eng' = [engine_clear(eng) EXCEPT !.status = "idle", !.go_depth = 0]
    /\ saved' = <<[op |-> "ucinewgame"]>>
    /\ UNCHANGED perft

UciNext ==
    \/ Position \/ UciNewGame
    \/ Go \/ PvsEnter \/ PvsResume \/ QsearchEnter \/ QsearchResume \/ SearchScored

SpecUci == UciInit /\ [][UciNext]_vars

\* probe returns nothing, for the hash of every slot that was ever written,
\* for the hash of the board, and for hashes of slots never written
tt_empty(tt) ==
    \A h \in {tt[x].hash : x \in DOMAIN tt} \cup {hash(board)} \cup TTHashes :
        probe(tt, h) = None

\* C18: the TT is empty (probe returns None for every hash) when search is
\* called by a "go" line and after a "ucinewgame" line, so that no entry
\* written during one go is seen by the next.
C18_ClearedBeforeGo ==
    /\ (last_call("search") /\ eng.nodes = 0) => tt_empty(eng.tt)
    /\ last_call("ucinewgame") => tt_empty(eng.tt)

\* the second go is at its first node, and the slot of the root still holds
\* the move the first go stored there
C18_Witness ==
    /\ last_call("search") /\ eng.status = "searching" /\ eng.nodes = 0
    /\ eng.gos = 2
    /\ tt_slot(eng.tt, hash(board)).hash = hash(board)
    /\ tt_slot(eng.tt, hash(board)).mv # null_move

\* ------------------------------------------------------------------ a "stop" line during a search

\* The games that are searched when the "stop" line is sent: the search of
\* the first goes through the time check of the 2048th node, that of the
\* second has captures to try.
StopGames ==
    { Game(ShuffleFen, <<>>, <<0>>, MaxClockDepth),
      Game(MateFen, <<>>, <<0>>, MaxUciDepth) }

StopInit ==
    \E g \in StopGames :
        /\ board = position_sent(g, Len(g.sent))
        /\ eng = [engine_told(g) EXCEPT !.go_depth = g.depth]
        /\ saved = <<>>
        /\ perft = PerftIdle

\* The "stop" line is written to the engine's standard input while main is in
\* search.  saved keeps how many time checks the search had made by then.
SendStop ==
    /\ eng.status = "searching" /\ eng.stdin = <<>> /\ Len(saved) = 1
    /\ eng' = [eng EXCEPT !.stdin = <<"stop">>]
    /\ saved' = Append(saved, [op |-> "stop", checks |-> eng.nodes \div 2048])
    /\ UNCHANGED <<board, perft>>

\* main reads its next line when search has returned and bestmove is
\* printed; "stop" matches no arm but `_ => {}`.
ReadStop ==
    /\ eng.status = "done" /\ eng.stdin # <<>>
    /\ eng' = [eng EXCEPT !.stdin = Tail(@)]
    /\ UNCHANGED <<board, saved, perft>>

StopNext ==
    \/ SendStop \/ ReadStop
    \/ Go \/ PvsEnter \/ PvsResume \/ QsearchEnter \/ QsearchResume \/ SearchScored

SpecStop == StopInit /\ [][StopNext]_vars

\* C20: a "stop" line sent while search runs sets the stopped flag: once the
\* search has made a time check after the line was sent, stopped is true.
C20_StopSetsFlag ==
    (eng.status = "searching" /\ Len(saved) = 2
        /\ eng.nodes \div 2048 > saved[2].checks) => eng.stopped

\* "stop" was sent before the first time check; search has returned with all
\* its iterations completed, stopped false, and the line is still unread
C20_Witness ==
    /\ eng.status = "done" /\ eng.stdin = <<"stop">> /\ Len(saved) = 2
    /\ saved[2].checks = 0 /\ eng.nodes >= 2048
    /\ ~eng.stopped
    /\ Len(eng.info) = MaxClockDepth

\* ------------------------------------------------------------------ claims on the clock and the unwind

\* C21: check_time runs each time the node counter, which counts the nodes of
\* pvs and of qsearch, reaches a multiple of 2048.
C21_TimeCheckEvery2048 ==
    eng.status = "searching" => eng.checks = eng.nodes \div 2048

\* the 2048th node was a node of qsearch, which has returned to pvs: the
\* search goes on without a call of check_time
C21_Witness ==
    /\ eng.status = "searching" /\ eng.nodes = 2048 /\ eng.checks = 0
    /\ eng.stack # <<>> /\ top(eng).pc = "qsearch" /\ is_some(eng.ret)

\* What is left of an unwind: a frame that waits for its scout search may
\* still call the re-search, which returns at once; every other frame only
\* returns.
unwind_rank(e) ==
    IF e.status # "searching" THEN 0
    ELSE 1 + sum_range([k \in 1..Len(e.stack) |->
                           CASE e.stack[k].pc = "enter" -> 1
                             [] e.stack[k].pc = "scout" -> 4
                             [] OTHER -> 2] \o <<>>, 1, Len(e.stack))

\* C22: once stopped is set, no TT entry, killer slot or history counter is
\* written until search returns; every frame that returns returns 0, and each
\* step brings the return of search nearer.
C22_NoWriteOnceStopped ==
    [][(eng.status = "searching" /\ eng.stopped) =>
           /\ eng'.tt = eng.tt
           /\ eng'.killer = eng.killer
           /\ eng'.history = eng.history
           /\ Len(eng'.stack) < Len(eng.stack) => eng'.ret = Some(0)
           /\ unwind_rank(eng') < unwind_rank(eng)]_vars

\* stopped is set and a frame of pvs, two plies below the root, has its child
\* back: without the test of stopped it would go on to its next move and to
\* its store
C22_Witness ==
    /\ eng.status = "searching" /\ eng.stopped
    /\ Len(eng.stack) = 3 /\ is_some(eng.ret)
    /\ top(eng).fn = "pvs" /\ top(eng).pc \in {"first", "scout", "research"}
    /\ DOMAIN eng.tt # {}

\* ------------------------------------------------------------------ makes of any move

\* Moves that no generator returns: the null move and a3a4, made when their
\* source square is empty.
EmptySourceMoves == {null_move, Move(16, 24, None, None, FALSE, FALSE)}

\* Board::make_move called with a move whose source square is empty.
MakeFromEmpty ==
    /\ Len(board.history) < MaxPly
    /\ \E mv \in EmptySourceMoves :
           /\ is_none(board.squares[mv.from])
           /\ board' = make_move(board, mv)
    /\ saved' = Append(saved, board)
    /\ UNCHANGED <<perft, eng>>

MakesNext == MakeMove \/ MakeFromEmpty \/ UnmakeMove

SpecMakes == Init /\ [][MakesNext]_vars

\* C23: Board.hash is Zobrist::hash of the board, after construction and
\* after every make_move and unmake_move.
C23_HashIsFingerprint ==
    board.hash = hash(board)

\* two moves were made: hash is still the 0 of from_fen, and so are the two
\* entries of position_hashes
C23_Witness ==
    /\ Len(saved) = 2
    /\ board.hash = {} /\ saved[1].hash = {}
    /\ board.position_hashes = <<{}, {}>>
    /\ hash(board) # hash(saved[1]) /\ hash(board) # {}

\* The position of the board: what Zobrist::hash reads.
position_of(b) ==
    [squares |-> b.squares, side |-> b.side, castling |-> b.castling,
     ep_square |-> b.ep_square]

\* C24: is_repetition is true iff the position of the board occurred at
\* least twice among the positions the makes of the line started from.
C24_RepetitionIffSeenTwice ==
    is_repetition(board) <=>
        Cardinality({k \in 1..Len(saved) : position_of(saved[k]) = position_of(board)}) >= 2

\* after two generated moves is_repetition is true, and neither of the two
\* earlier positions is the position of the board
C24_Witness ==
    /\ Len(saved) = 2
    /\ is_some(saved[1].squares[board.history[1].mv.from])
    /\ is_some(saved[2].squares[board.history[2].mv.from])
    /\ is_repetition(board)
    /\ \A k \in 1..2 : position_of(saved[k]) # position_of(board)

\* C25: position_hashes and history have the same length, which is the
\* number of makes not yet unmade, a make with an empty source square
\* included; unmake_move on an empty history changes nothing.
C25_HashesMirrorHistory ==
    /\ Len(board.history) = Len(saved)
    /\ Len(board.position_hashes) = Len(saved)
    /\ Len(board.history) = 0 => unmake_move(board) = board

\* the second make had an empty source square
C25_Witness ==
    /\ Len(saved) = 2
    /\ is_none(saved[2].squares[last_move.from])
    /\ Len(board.position_hashes) = 2 /\ Len(board.history) = 2
    /\ board.side = saved[1].side

\* The move made last was the move of a pawn by two ranks.
double_push ==
    /\ is_some(before_move.squares[last_move.from])
    /\ before_move.squares[last_move.from][1].piece = "Pawn"
    /\ abs(last_move.to - last_move.from) = 16

\* C26 as it is claimed: after every make_move, ep_square is the square
\* between from and to when a pawn moved two ranks, and None otherwise.
C26_EpSquareAfterEveryMake ==
    Len(saved) > 0 =>
        board.ep_square = IF double_push
                          THEN Some((last_move.from + last_move.to) \div 2)
                          ELSE None

\* C26: after a make_move whose source square held a piece, ep_square is the
\* square between from and to when a pawn moved two ranks, and None
\* otherwise; a make_move whose source square was empty leaves ep_square as
\* it was.
C26_EpSquareAfterPieceMove ==
    Len(saved) > 0 =>
        board.ep_square = IF is_none(before_move.squares[last_move.from])
                          THEN before_move.ep_square
                          ELSE IF double_push
                          THEN Some((last_move.from + last_move.to) \div 2)
                          ELSE None

\* a piece other than a pawn went two ranks up or down and left no
\* en-passant square
C26_Witness ==
    /\ Len(saved) > 0
    /\ is_some(before_move.squares[last_move.from])
    /\ before_move.squares[last_move.from][1].piece # "Pawn"
    /\ abs(last_move.to - last_move.from) = 16
    /\ is_some(before_move.ep_square)
    /\ is_none(board.ep_square)

CastlingBits == {1, 2, 4, 8}

\* The right that goes with a corner square.
corner_bit(sq) ==
    CASE sq = 0 -> 2 [] sq = 7 -> 1 [] sq = 56 -> 8 [] sq = 63 -> 4

\* C27: make_move sets no castling bit; when a piece moved, both bits of its
\* colour are clear if it is a king, and the bit of a corner is clear if the
\* corner is the from or the to square.
C27_CastlingOnlyClears ==
    Len(saved) > 0 =>
        LET P == before_move
            m == last_move
            src == P.squares[m.from]
        IN /\ \A bit \in CastlingBits : has_bit(board.castling, bit) => has_bit(P.castling, bit)
           /\ (is_some(src) /\ src[1].piece = "King") =>
                  \A bit \in IF src[1].color = "White" THEN {1, 2} ELSE {4, 8} :
                      ~has_bit(board.castling, bit)
           /\ is_some(src) =>
                  \A sq \in {m.from, m.to} \cap {0, 7, 56, 63} :
                      ~has_bit(board.castling, corner_bit(sq))
           /\ (is_some(src) /\ src[1].piece # "King") =>
                  \A bit \in CastlingBits :
                      (has_bit(P.castling, bit)
                          /\ bit \notin {corner_bit(sq) : sq \in {m.from, m.to} \cap {0, 7, 56, 63}})
                      => has_bit(board.castling, bit)

\* a pawn took the rook on a8 and Black's queenside right, which was set, is
\* clear
C27_Witness ==
    /\ Len(saved) > 0
    /\ before_move.squares[last_move.from] = Some(ColoredPiece("Pawn", "White"))
    /\ last_move.to = 56 /\ last_move.captured = Some("Rook")
    /\ has_bit(before_move.castling, 8)
    /\ ~has_bit(board.castling, 8)
    /\ has_bit(board.castling, 4)

\* ------------------------------------------------------------------ claims on the positions of the game

\* C28: after a "position" line with k legal moves, read by an engine whose
\* rep_table is empty, rep_table holds the fingerprint of each of the k + 1
\* positions of the game.
C28_EveryGamePositionPushed ==
    (last_call("position") /\ saved[1].rep_table = <<>>) =>
        LET through == line_boards(from_fen(saved[1].fen), saved[1].moves, 1)
        IN \A k \in 1..Len(through) : contains(eng.rep_table, hash(through[k]))

\* "position fen k7/8/8/8/3Q4/8/6K1/8 w - - 0 1 moves d4d1 a8b8" was read by
\* the new engine: rep_table holds one hash, that of the position after a8b8
C28_Witness ==
    /\ last_call("position") /\ saved[1].rep_table = <<>>
    /\ saved[1].fen = RepeatFen /\ Len(saved[1].moves) = 2
    /\ eng.gos = 0
    /\ Len(board.history) = 2
    /\ hash(from_fen(RepeatFen)) # hash(board)
    /\ eng.rep_table = <<hash(board)>>

\* ------------------------------------------------------------------ claims on the windows and on qsearch

\* The frame of pvs that made the call of the frame on top of the stack.
caller(e) == e.stack[Len(e.stack) - 1]

\* C29: the move at index 0 is searched with the window (-beta, -alpha) at
\* depth - 1; every later move first with (-alpha - 1, -alpha) at
\* depth - 1 - R, R = 1 iff index >= 3, depth >= 3, the move is no capture
\* and no promotion and the position after it is not in check; and it is
\* searched again with (-beta, -alpha) at depth - 1 iff the first score is
\* > alpha.
C29_WindowsAndReduction ==
    [][/\ (/\ eng'.status = "searching"
            /\ Len(eng'.stack) = Len(eng.stack) + 1 /\ Len(eng.stack) >= 1
            /\ caller(eng').pc \in {"first", "scout", "research"}) =>
               LET p == caller(eng')
                   c == top(eng')
                   index == p.i - 1
                   mv == p.moves[p.i]
                   R == IF /\ index >= 3 /\ p.depth >= 3
                           /\ is_none(mv.captured) /\ is_none(mv.promotion)
                           /\ ~in_check(board')
                        THEN 1 ELSE 0
               IN /\ c.fn = "pvs" /\ c.ply = p.ply + 1
                  /\ (index = 0) <=> (p.pc = "first")
                  /\ p.pc \in {"first", "research"} =>
                         /\ c.depth = p.depth - 1
                         /\ c.alpha = -p.beta /\ c.beta = -p.alpha
                  /\ p.pc = "scout" =>
                         /\ c.depth = p.depth - 1 - R
                         /\ c.alpha = -p.alpha - 1 /\ c.beta = -p.alpha
                  /\ last(board'.history).mv = mv
       /\ (/\ running("pvs") /\ top(eng).pc = "scout" /\ is_some(eng.ret)) =>
               ((/\ Len(eng'.stack) = Len(eng.stack) + 1
                 /\ caller(eng').pc = "research"
                 /\ caller(eng').i = top(eng).i)
                <=> -eng.ret[1] > top(eng).alpha)
       /\ (/\ running("pvs") /\ top(eng).pc \in {"first", "research"} /\ is_some(eng.ret)) =>
               ~(Len(eng'.stack) = Len(eng.stack) + 1 /\ caller(eng').pc = "research")
      ]_vars

\* a quiet move at index >= 3 that gives no check was searched two plies
\* shallower, scored above alpha, and is searched again at depth - 1
C29_Witness ==
    /\ eng.status = "searching" /\ Len(eng.stack) >= 2
    /\ top(eng).pc = "enter" /\ caller(eng).pc = "research"
    /\ caller(eng).depth >= 3 /\ caller(eng).i >= 4
    /\ is_none(caller(eng).moves[caller(eng).i].captured)
    /\ ~in_check(board)
    /\ top(eng).depth = caller(eng).depth - 1
    /\ top(eng).alpha = -caller(eng).beta

count_pieces(b) == Cardinality({sq \in Squares : is_some(b.squares[sq])})

\* The frames of qsearch that have made a capture and wait for its score,
\* outermost first.
capturing == SelectSeq(eng.stack, LAMBDA f : f.fn = "qsearch" /\ f.pc = "capture")

RECURSIVE unmake_times(_, _)
unmake_times(b, n) == IF n = 0 THEN b ELSE unmake_times(unmake_move(b), n - 1)

\* C30: along a chain of calls of qsearch every move made is a capture
\* (captured set, or en passant), each takes one piece off the board, and the
\* chain is shorter than the number of pieces of the position it started from.
C30_QsearchCapturesOnly ==
    eng.status = "searching" =>
        LET n == Len(capturing)
            made == SubSeq(board.history, Len(board.history) - n + 1, Len(board.history))
        IN /\ n <= Len(board.history)
           /\ \A k \in 1..n :
                  /\ made[k].mv = capturing[k].moves[capturing[k].i]
                  /\ is_some(made[k].mv.captured) \/ made[k].mv.is_ep
                  /\ count_pieces(unmake_times(board, n - k))
                         = count_pieces(unmake_times(board, n - k + 1)) - 1
           /\ count_pieces(board) >= 2
           /\ n <= count_pieces(unmake_times(board, n)) - 2

\* qsearch is three calls deep: two captures are on the board
C30_Witness ==
    /\ eng.status = "searching"
    /\ Len(capturing) = 2
    /\ top(eng).fn = "qsearch" /\ top(eng).pc = "enter"
    /\ count_pieces(board) = count_pieces(unmake_times(board, 2)) - 2


\* ------------------------------------------------------------------ claims on the castling rights

\* The corner a castling of `color` on `wing` takes its rook from.
rook_home(color, wing) ==
    IF color = "White" THEN (IF wing = "K" THEN 7 ELSE 0)
                       ELSE (IF wing = "K" THEN 63 ELSE 56)

\* C31: in every position reached by make_move of generated moves, a castling
\* bit that is set has the king of its colour on e1/e8 and a rook of that
\* colour on its corner; every generated castling move therefore takes an own
\* rook from the corner, and the castling move made last put it next to the king.
C31_RightsImplyHomePieces ==
    /\ \A color \in {"White", "Black"}, wing \in {"K", "Q"} :
           has_bit(board.castling, castling_right(color, wing)) =>
               /\ board.squares[home_square(color)] = Some(ColoredPiece("King", color))
               /\ board.squares[rook_home(color, wing)] = Some(ColoredPiece("Rook", color))
    /\ \A mv \in elements(generate_moves(board)) :
           mv.is_castle =>
               /\ castle_rook_from(mv) \in {rook_home(board.side, wing) : wing \in {"K", "Q"}}
               /\ board.squares[castle_rook_from(mv)] = Some(ColoredPiece("Rook", board.side))
    /\ (Len(saved) > 0 /\ last_move.is_castle) =>
           /\ board.squares[castle_rook_to(last_move)] = Some(ColoredPiece("Rook", before_move.side))
           /\ is_none(board.squares[castle_rook_from(last_move)])

\* r3k2r/1P6/8/8/8/8/6p1/R3K2R w KQkq: b7xa8=N took the queenside rook and
\* its right, Black kept the kingside right and castled with the rook of h8.
C31_Witness ==
    /\ Len(saved) = 2
    /\ saved[1] = from_fen(PromoFen)
    /\ board.history[1].mv = Move(49, 56, Some("Knight"), Some("Rook"), FALSE, FALSE)
    /\ saved[2].castling = 7
    /\ last_move = castling_move("Black", "K")
    /\ board.squares[61] = Some(ColoredPiece("Rook", "Black"))
    /\ board.squares[56] = Some(ColoredPiece("Knight", "White"))
    /\ board.castling = 3


\* ------------------------------------------------------------------ searches to the largest depth

\* The largest max_depth a u8 holds.
U8Max == 255

\* The games of SpecSearch at their depths, and the locked position searched
\* with max_depth = 255: every node has one legal move and the root position
\* is back after four plies, so each of the 255 iterations has five nodes.
DeepGames == Games \cup {Game(LockedFen, <<>>, <<0>>, U8Max)}

DeepInit ==
    \E g \in DeepGames : \E d \in {k \in (0..MaxSearchDepth) \cup {U8Max} : k <= g.depth} :
        /\ board = position_sent(g, Len(g.sent))
        /\ eng = [engine_told(g) EXCEPT !.go_depth = d]
        /\ saved = <<>>
        /\ perft = PerftIdle

SpecDeep == DeepInit /\ [][SearchNext]_vars

\* C32: the u8 depths of pvs never wrap.  The root is called with the depth
\* of the iteration, 1..max_depth; a frame in its move loop has depth >= 1 and
\* the frame it called has exactly depth - 1 - R, with R = 1 only for a scout
\* search of a move at index >= 3 at depth >= 3; qsearch is called at depth 0;
\* every TT entry has depth 1..255 and is found by probe.
C32_DepthNeverWraps ==
    /\ eng.status = "searching" =>
           /\ eng.max_depth \in 0..U8Max
           /\ eng.stack # <<>> =>
                  eng.stack[1].depth = eng.depth /\ eng.depth \in 1..eng.max_depth
           /\ \A k \in 1..Len(eng.stack) :
                  LET f == eng.stack[k] IN
                  /\ f.depth \in 0..U8Max
                  /\ (f.fn = "pvs" /\ f.pc \in {"first", "scout", "research"}) => f.depth >= 1
                  /\ (f.fn = "pvs" /\ f.pc = "qsearch") => f.depth = 0
                  /\ (k > 1 /\ f.fn = "pvs") =>
                         LET p == eng.stack[k - 1]
                             R == p.depth - 1 - f.depth
                         IN /\ p.depth >= 1
                            /\ R \in {0, 1}
                            /\ R = 1 => (p.pc = "scout" /\ p.i - 1 >= 3 /\ p.depth >= 3)
                            /\ p.depth - 1 - R >= 0
    /\ eng.active =>
           \A x \in DOMAIN eng.tt :
               /\ eng.tt[x].depth \in 1..U8Max
               /\ probe(eng.tt, eng.tt[x].hash) = Some(eng.tt[x])

\* go depth 255 in its last iteration: the root has depth 255 and searches its
\* move at depth 254, the TT holds the root's entry of iteration 254
C32_Witness ==
    /\ eng.status = "searching" /\ eng.max_depth = U8Max
    /\ Len(eng.stack) = 2
    /\ eng.stack[1].depth = U8Max /\ eng.stack[1].pc = "first"
    /\ eng.stack[2].depth = U8Max - 1
    /\ is_some(probe(eng.tt, eng.stack[1].hash))
    /\ probe(eng.tt, eng.stack[1].hash)[1].depth = U8Max - 1


\* ------------------------------------------------------------------ claims on the move ordering

MaxOrderDepth == 4

\* 1r5k/P7/8/8/8/8/8/K7 b - - 0 1: a rook move off the eighth rank is
\* answered by a7a8q, which fails high at two sibling nodes of ply 1.
KillerFen ==
    << <<"1","r","5","k","/","P","7","/","8","/","8","/","8","/","8","/","8","/","K","7">>,
       <<"b">>, <<"-">>, <<"-">>, <<"0">>, <<"1">> >>

OrderGames == Games \cup {Game(KillerFen, <<>>, <<0>>, MaxOrderDepth)}

OrderInit ==
    \E g \in OrderGames : \E d \in 0..g.depth :
        /\ board = position_sent(g, Len(g.sent))
        /\ eng = [engine_told(g) EXCEPT !.go_depth = d]
        /\ saved = <<>>
        /\ perft = PerftIdle

SpecOrder == OrderInit /\ [][SearchNext]_vars

\* pvs has ordered the moves of a node and called the search of the first:
\* tt, killer and history are those order has read.
ordered_node ==
    /\ eng.status = "searching" /\ Len(eng.stack) >= 2
    /\ top(eng).pc = "enter"
    /\ caller(eng).fn = "pvs" /\ caller(eng).pc = "first"

\* The move of the TT entry of the node, when it is one of the node's moves.
tt_move_of_node ==
    LET hit == probe(eng.tt, caller(eng).hash)
    IN IF is_some(hit) /\ hit[1].mv \in elements(caller(eng).moves)
       THEN Some(hit[1].mv) ELSE None

\* The moves of the node, other than `tt_mv`, whose key exceeds the key of a
\* TT move that neither captures nor promotes to a queen: the queen
\* promotions without capture that stand in both killer slots of the ply.
double_killers(tt_mv) ==
    {mv \in elements(caller(eng).moves) :
        /\ mv # tt_mv
        /\ mv.promotion = Some("Queen") /\ is_none(mv.captured)
        /\ caller(eng).ply < 128
        /\ killer_at(eng, caller(eng).ply) = <<Some(mv), Some(mv)>>}

earlier_occurrences ==
    Cardinality({k \in 1..Len(board.history) :
                    position_of(unmake_times(board, k)) = position_of(board)})

\* is_draw has reported a repetition for the node of the call that has just
\* returned (a node at ply > 0: it returned to a pvs frame).
repetition_reported ==
    /\ pvs_returned /\ ~eng.stopped
    /\ board.halfmove < 100
    /\ count_eq(eng.rep_table, hash(board)) >= 2

\* C34: is_draw reports a repetition for a node at ply > 0 only if the
\* node's position occurred at least twice earlier in the game or on the
\* search path; the root position, pushed by push_position and by pvs at
\* ply 0, counts once.
C34_RepetitionOnlyAfterTwoOccurrences ==
    repetition_reported => earlier_occurrences >= 2

\* 5b1k/4p1p1/4P1P1/7p/7P/1p1p4/1P1P4/K1B5 w, sent once: at ply 4 the root
\* position is back for the first time, rep_table holds its hash twice (main's
\* push and the root's) and the node is scored as a draw.
C34_Witness ==
    /\ repetition_reported
    /\ Len(board.history) = 4
    /\ top(eng).ply = 3
    /\ earlier_occurrences = 1
    /\ position_of(unmake_times(board, 4)) = position_of(board)
    /\ Len(saved[1].rep_table) = 1
    /\ SubSeq(eng.rep_table, 1, 2) = <<hash(board), hash(board)>>
    /\ count_eq(eng.rep_table, hash(board)) = 2
    /\ eng.ret = Some(0)

====
